---- MODULE Spec2Model ----
(***************************************************************************)
(* Verification model of the vibration toolbox:                            *)
(*   - VibeSystem (src/vibration_toolbox/vibesystem.py): the lumped        *)
(*     multi-degree-of-freedom system, its eigen-sort and its modal        *)
(*     frequency response;                                                 *)
(*   - euler_beam_modes / euler_beam_frf                                   *)
(*     (src/build/lib/vibration_toolbox/continuous_systems.py).            *)
(*                                                                         *)
(* Numbers.  Floating point values are modelled in fixed point.  For the   *)
(* VibeSystem an eigenvalue is a pair <<re, im>> of integers counting      *)
(* units of 1e-11 rad/s, so that np.around(., decimals=10) is a rounding   *)
(* to the nearest multiple of Quantum = 10 units; stiffness entries count  *)
(* units of 1e-22, damping entries units of 1e-11, masses are plain.       *)
(* Square roots are integer square roots.  Frequencies wn and wd are kept  *)
(* in units of 1e-11/(2*pi) Hz, i.e. the division by 2*pi is the unit.     *)
(***************************************************************************)
EXTENDS Integers, Sequences, FiniteSets, TLC

VARIABLES
    _M, _C, _K,         \* VibeSystem: the defining matrices
    n,                  \* VibeSystem.n
    evalues, evectors,  \* VibeSystem: sorted eigenvalues / eigenvector columns
    wn, wd,             \* VibeSystem: natural and damped frequencies
    H,                  \* VibeSystem: the lti realization (A, B, C, D)
    lapack,             \* the order in which la.eig lists the eigenpairs
    fr, fr_prev,        \* the last two freq_response calls on these matrices
    last,               \* the operation that produced the state
    ix_in, ix_out,      \* VibeSystem._index as a function: argument and result
    frf_pc,             \* euler_beam_frf: "idle", "loop" or "done"
    frf_args,           \* euler_beam_frf: the arguments of the call
    frf_i,              \* euler_beam_frf: the loop counter i
    frf_wn,             \* euler_beam_frf: wn, the frequencies of the last solve
    frf_a, frf_f,       \* euler_beam_frf: the written columns of a, entries of f
    frf_out,            \* what the caller of the call receives
    ms_call, ms_out,    \* a mode solver: the call and what its caller receives
    pf_call, pf_out,    \* a call on a VibeSystem and what its caller receives
    ms_prev,            \* a mode solver: what the previous identical call returned
    arrays,             \* the array objects of the caller: identity -> contents
    held,               \* the array objects self._M, self._C, self._K refer to
    other               \* the array objects a second VibeSystem refers to

vibeVars == <<_M, _C, _K, n, evalues, evectors, wn, wd, H, lapack, fr, fr_prev, last>>
ixVars == <<ix_in, ix_out>>
frfVars == <<frf_pc, frf_args, frf_i, frf_wn, frf_a, frf_f, frf_out>>

modeVars == <<ms_call, ms_out>>
pfVars == <<pf_call, pf_out>>
repeatVars == <<ms_prev>>
heapVars == <<arrays, held, other>>

vars == <<vibeVars, ixVars, frfVars, modeVars, pfVars, repeatVars, heapVars>>

\* optional values: None, or Some(x) with value Val(.)
None == <<>>
Some(x) == <<x>>
Val(o) == o[1]

(***************************************************************************)
(* Bounds and input sets                                                   *)
(***************************************************************************)
\* largest number of degrees of freedom of a modelled system
NDof == 2

\* diagonal entries the mass, damping and stiffness matrices are drawn from
MVals == {1, 2}
CVals == {0, 4}
KVals == {400, 900}

\* the orders la.eig may list the eigenpairs in (LAPACK leaves it open)
EigOrders == {"forward", "reverse"}

(***************************************************************************)
(* Arithmetic helpers                                                      *)
(***************************************************************************)
RECURSIVE ISqrtIn(_, _, _)
ISqrtIn(x, lo, hi) ==
    IF lo >= hi THEN lo
    ELSE LET mid == (lo + hi + 1) \div 2
         IN  IF mid * mid <= x THEN ISqrtIn(x, mid, hi) ELSE ISqrtIn(x, lo, mid - 1)

\* floor of the square root (np.sqrt in fixed point)
ISqrt(x) == ISqrtIn(x, 0, 46340)

RECURSIVE Gcd(_, _)
Gcd(a, b) == IF b = 0 THEN a ELSE Gcd(b, a % b)

AbsInt(x) == IF x < 0 THEN -x ELSE x

\* the rational p/q in lowest terms with a positive denominator
Rat(p, q) ==
    LET g == Gcd(AbsInt(p), AbsInt(q))
        s == IF q < 0 THEN -1 ELSE 1
    IN  <<(s * p) \div g, (s * q) \div g>>

\* a rational to fixed point
Fix(r) == r[1] \div r[2]

RatAdd(x, y) == Rat(x[1] * y[2] + y[1] * x[2], x[2] * y[2])
RatSub(x, y) == Rat(x[1] * y[2] - y[1] * x[2], x[2] * y[2])
RatMul(x, y) == Rat(x[1] * y[1], x[2] * y[2])

\* complex numbers <<re, im>>
Re(z) == z[1]
Im(z) == z[2]
Conj(z) == <<z[1], -z[2]>>

\* np.absolute of a complex number
Absolute(z) == ISqrt(z[1] * z[1] + z[2] * z[2])

\* number of model units in one rounding step of np.around(., decimals=10)
Quantum == 10

\* np.around of a real: round half to even, to a multiple of Quantum
AroundReal(x) ==
    LET q == x \div Quantum
        r == x % Quantum
    IN  IF 2 * r < Quantum THEN Quantum * q
        ELSE IF 2 * r > Quantum THEN Quantum * (q + 1)
        ELSE IF q % 2 = 0 THEN Quantum * q ELSE Quantum * (q + 1)

\* np.around of a complex number rounds both parts
Around(z) == <<AroundReal(z[1]), AroundReal(z[2])>>

\* ascending sequence of the elements of a finite set of integers
RECURSIVE SetToSeq(_)
SetToSeq(S) ==
    IF S = {} THEN <<>>
    ELSE LET m == CHOOSE x \in S : \A y \in S : x <= y
         IN  <<m>> \o SetToSeq(S \ {m})

Range(s) == {s[i] : i \in DOMAIN s}

\* a function over 1..N as an array value (numpy arrays hold computed entries)
Arr(f) == f \o <<>>

\* the value of an assignment, computed once: the element of a singleton
Once(S) == CHOOSE r \in S : TRUE

(***************************************************************************)
(* Matrices: sequences of rows                                             *)
(***************************************************************************)
Diag(v) == Arr([i \in 1..Len(v) |-> Arr([j \in 1..Len(v) |-> IF i = j THEN v[i] ELSE 0])])

DiagOver(d, Vals) == {Diag(v) : v \in [1..d -> Vals]}

Neg(X) == Arr([i \in DOMAIN X |-> Arr([j \in DOMAIN X[i] |-> -X[i][j]])])

Eye(d) == Arr([i \in 1..d |-> Arr([j \in 1..d |-> IF i = j THEN 1 ELSE 0])])

\* la.solve(a, b): the exact rational solution of a x = b, for a diagonal a
\* and, by Cramer's rule, for any invertible 2 x 2 a
la_solve(a, b) ==
    IF Len(a) = 2 /\ (a[1][2] # 0 \/ a[2][1] # 0)
    THEN LET det == a[1][1] * a[2][2] - a[1][2] * a[2][1]
         IN  Arr([i \in 1..2 |-> Arr([j \in DOMAIN b[i] |->
                 IF i = 1
                 THEN Rat(b[1][j] * a[2][2] - a[1][2] * b[2][j], det)
                 ELSE Rat(a[1][1] * b[2][j] - a[2][1] * b[1][j], det)])])
    ELSE Arr([i \in DOMAIN b |-> Arr([j \in DOMAIN b[i] |-> Rat(b[i][j], a[i][i])])])

\* A with the lower blocks solved against M instead of -M
A_unsigned(Mm, Cm, Km, nn) ==
    LET SK == la_solve(Mm, Km)
        SC == la_solve(Mm, Cm)
    IN  Arr([i \in 1..(2 * nn) |-> Arr([j \in 1..(2 * nn) |->
            IF i <= nn
            THEN (IF j = i + nn THEN <<1, 1>> ELSE <<0, 1>>)
            ELSE (IF j <= nn THEN SK[i - nn][j] ELSE SC[i - nn][j - nn])])])

\* VibeSystem.A: [[Z, I], [solve(-M, K), solve(-M, C)]], entries rational
A(Mm, Cm, Km, nn) ==
    LET SK == la_solve(Neg(Mm), Km)
        SC == la_solve(Neg(Mm), Cm)
    IN  Arr([i \in 1..(2 * nn) |-> Arr([j \in 1..(2 * nn) |->
            IF i <= nn
            THEN (IF j = i + nn THEN <<1, 1>> ELSE <<0, 1>>)
            ELSE (IF j <= nn THEN SK[i - nn][j] ELSE SC[i - nn][j - nn])])])

(***************************************************************************)
(* la.eig of the state matrix of a system of uncoupled oscillators: the    *)
(* two eigenvalues of degree of freedom j are the roots of                 *)
(* z^2 - b z - a = 0 with a = A[n+j][j], b = A[n+j][n+j]; the eigenvector  *)
(* of root z has 1 at row j and z at row n+j.                              *)
(***************************************************************************)
PairRoots(a, b) ==
    LET D == b * b + 4 * a
    IN  IF D >= 0
        THEN <<  <<(b + ISqrt(D)) \div 2, 0>>,  <<(b - ISqrt(D)) \div 2, 0>>  >>
        ELSE <<  <<b \div 2, ISqrt(-D) \div 2>>,  <<b \div 2, -(ISqrt(-D) \div 2)>>  >>

EigVector(j, z, nn) ==
    Arr([r \in 1..(2 * nn) |->
            IF r = j THEN <<1, 0>> ELSE IF r = nn + j THEN z ELSE <<0, 0>>])

\* the degree of freedom and the root listed at position p (1-based) by la.eig
EigDof(p, nn, order) ==
    IF order = "forward" THEN (p + 1) \div 2 ELSE nn + 1 - ((p + 1) \div 2)

\* the lower blocks of the 2-DOF state matrix are not diagonal
Coupled(Am, nn) ==
    /\ nn = 2
    /\ \/ Am[3][2] # <<0, 1>> \/ Am[4][1] # <<0, 1>>
       \/ Am[3][4] # <<0, 1>> \/ Am[4][3] # <<0, 1>>

\* A 2-DOF system whose matrices all have the form [[a, b], [b, a]] has the
\* mode shapes u = (1, 1) and u = (1, -1); the two eigenvalues of a shape are
\* the roots of z^2 - (r +- s) z - (p +- q) = 0 with p, q, r, s the first row
\* of the lower blocks, and the eigenvector of root z is (u, z u).
ShapeOf(m) == IF m = 1 THEN <<1, 1>> ELSE <<1, -1>>

ShapeRoots(Am, m) ==
    IF m = 1
    THEN PairRoots(Fix(RatAdd(Am[3][1], Am[3][2])), Fix(RatAdd(Am[3][3], Am[3][4])))
    ELSE PairRoots(Fix(RatSub(Am[3][1], Am[3][2])), Fix(RatSub(Am[3][3], Am[3][4])))

ShapeVector(m, z) ==
    LET u == ShapeOf(m)
    IN  <<  <<u[1], 0>>, <<u[2], 0>>,
            <<u[1] * z[1], u[1] * z[2]>>, <<u[2] * z[1], u[2] * z[2]>>  >>

la_eig(Am, nn, order) ==
    IF Coupled(Am, nn)
    THEN LET vals == Arr([p \in 1..4 |-> ShapeRoots(Am, EigDof(p, nn, order))[2 - (p % 2)]])
         IN  [vals |-> vals,
              vecs |-> Arr([p \in 1..4 |-> ShapeVector(EigDof(p, nn, order), vals[p])])]
    ELSE
    LET root(p) == LET j == EigDof(p, nn, order)
                   IN  PairRoots(Fix(Am[nn + j][j]), Fix(Am[nn + j][nn + j]))[2 - (p % 2)]
        vals == Arr([p \in 1..(2 * nn) |-> root(p)])
    IN  [vals |-> vals,
         vecs |-> Arr([p \in 1..(2 * nn) |-> EigVector(EigDof(p, nn, order), vals[p], nn)])]

(***************************************************************************)
(* VibeSystem._index                                                       *)
(***************************************************************************)
\* np.lexsort((b, a)): positions sorted by a, then b; stable
LexBefore(a, b, i, j) ==
    \/ a[i] < a[j]
    \/ a[i] = a[j] /\ b[i] < b[j]
    \/ a[i] = a[j] /\ b[i] = b[j] /\ i < j

\* the sorted positions, 0-based as in numpy
lexsort(b, a) ==
    Arr([p \in 1..Len(a) |->
        (CHOOSE i \in 1..Len(a) :
            Cardinality({j \in 1..Len(a) : LexBefore(a, b, j, i)}) = p - 1) - 1])

\* _index with the two halves exchanged
_index_swapped(eigenvalues) ==
    LET evals_truncated == Arr([i \in 1..Len(eigenvalues) |-> Around(eigenvalues[i])])
        a == Arr([i \in 1..Len(eigenvalues) |-> Im(evals_truncated[i])])
        b == Arr([i \in 1..Len(eigenvalues) |-> Absolute(evals_truncated[i])])
        ind == lexsort(b, a)
        half == Len(a) \div 2
    IN  SubSeq(ind, 1, half) \o SubSeq(ind, half + 1, Len(ind))

_index(eigenvalues) ==
    LET evals_truncated == Arr([i \in 1..Len(eigenvalues) |-> Around(eigenvalues[i])])
        a == Arr([i \in 1..Len(eigenvalues) |-> Im(evals_truncated[i])])
        b == Arr([i \in 1..Len(eigenvalues) |-> Absolute(evals_truncated[i])])
        ind == lexsort(b, a)
        half == Len(a) \div 2
        positive == SubSeq(ind, half + 1, Len(ind))
        negative == SubSeq(ind, 1, half)
    IN  positive \o negative

\* x[idx] for a 0-based index array
Take(x, idx) == Arr([p \in 1..Len(idx) |-> x[idx[p] + 1]])

\* VibeSystem._eigen (sorted_=True)
_eigen(Mm, Cm, Km, nn, order) ==
    Once({Once({[evalues |-> Take(e.vals, idx), evectors |-> Take(e.vecs, idx)] :
                    idx \in {_index(e.vals)}}) :
              e \in {la_eig(A(Mm, Cm, Km, nn), nn, order)}})

\* _H with the input matrix B = [Z; I], for unit masses whatever M is
_H_unit_mass(Mm, Cm, Km, nn) ==
    [A |-> A(Mm, Cm, Km, nn),
     B |-> Arr([i \in 1..(2 * nn) |-> Arr([j \in 1..nn |->
                IF i = nn + j THEN <<1, 1>> ELSE <<0, 1>>])]),
     C |-> Arr([i \in 1..nn |-> Arr([j \in 1..(2 * nn) |->
                IF j = i THEN <<1, 1>> ELSE <<0, 1>>])]),
     D |-> Arr([i \in 1..nn |-> Arr([j \in 1..nn |-> <<0, 1>>])])]

\* _H with the velocities observed instead of the displacements: C = [0 I]
_H_velocity(Mm, Cm, Km, nn) ==
    LET MinvI == la_solve(Mm, Eye(nn))
    IN  [A |-> A(Mm, Cm, Km, nn),
         B |-> Arr([i \in 1..(2 * nn) |-> Arr([j \in 1..nn |->
                    IF i <= nn THEN <<0, 1>> ELSE MinvI[i - nn][j]])]),
         C |-> Arr([i \in 1..nn |-> Arr([j \in 1..(2 * nn) |->
                    IF j = i + nn THEN <<1, 1>> ELSE <<0, 1>>])]),
         D |-> Arr([i \in 1..nn |-> Arr([j \in 1..nn |-> <<0, 1>>])])]

\* VibeSystem._H: the lti system (A, B, C, D) with displacement observation
_H(Mm, Cm, Km, nn) ==
    LET MinvI == la_solve(Mm, Eye(nn))
    IN  [A |-> A(Mm, Cm, Km, nn),
         B |-> Arr([i \in 1..(2 * nn) |-> Arr([j \in 1..nn |->
                    IF i <= nn THEN <<0, 1>> ELSE MinvI[i - nn][j]])]),
         C |-> Arr([i \in 1..nn |-> Arr([j \in 1..(2 * nn) |->
                    IF j = i THEN <<1, 1>> ELSE <<0, 1>>])]),
         D |-> Arr([i \in 1..nn |-> Arr([j \in 1..nn |-> <<0, 1>>])])]

\* VibeSystem._calc_system: every derived quantity, from the stored matrices
calc_system(Mm, Cm, Km, nn, order) ==
    Once({[evalues  |-> e.evalues,
           evectors |-> e.evectors,
           wn       |-> Arr([i \in 1..nn |-> Absolute(e.evalues[i])]),
           wd       |-> Arr([i \in 1..nn |-> Im(e.evalues[i])]),
           H        |-> _H(Mm, Cm, Km, nn)] :
              e \in {_eigen(Mm, Cm, Km, nn, order)}})

\* the systems of the model: dimension, matrices and la.eig order
Systems ==
    UNION {DiagOver(d, MVals) \X DiagOver(d, CVals) \X DiagOver(d, KVals) \X {d} \X EigOrders :
           d \in 1..NDof}

\* _calc_system evaluated once per system (the values are those of calc_system)
CalcTable == [k \in Systems |-> calc_system(k[1], k[2], k[3], k[4], k[5])] @@ <<>>

_calc_system(Mm, Cm, Km, nn, order) == CalcTable[<<Mm, Cm, Km, nn, order>>]

NoCall == [outcome |-> "none", omega_arg |-> None, modes_arg |-> None,
           omega |-> None, idx |-> <<>>]

\* the assignments of _calc_system to the object's fields
Recalc(Mm, Cm, Km) ==
    LET d == _calc_system(Mm, Cm, Km, n, lapack)
    IN  /\ evalues' = d.evalues
        /\ evectors' = d.evectors
        /\ wn' = d.wn
        /\ wd' = d.wd
        /\ H' = d.H

\* no VibeSystem, no _index call, no euler_beam_frf call
VibeIdle ==
    /\ _M = <<>> /\ _C = <<>> /\ _K = <<>> /\ n = 0
    /\ evalues = <<>> /\ evectors = <<>> /\ wn = <<>> /\ wd = <<>> /\ H = <<>>
    /\ lapack = "forward" /\ fr = NoCall /\ fr_prev = NoCall /\ last = "none"

IndexIdle == ix_in = None /\ ix_out = None

FrfIdle ==
    /\ frf_pc = "idle" /\ frf_args = None /\ frf_i = 0 /\ frf_wn = <<>>
    /\ frf_a = <<>> /\ frf_f = <<>> /\ frf_out = None

ModesIdle == ms_call = None /\ ms_out = None

PfIdle == pf_call = None /\ pf_out = None

\* no earlier call of a mode solver, no array object shared with a caller
CallerIdle == ms_prev = None /\ arrays = <<>> /\ held = None /\ other = None

\* VibeSystem.__init__
VibeInit ==
    \E d \in 1..NDof :
      \E Mm \in DiagOver(d, MVals), Cm \in DiagOver(d, CVals), Km \in DiagOver(d, KVals) :
        \E order \in EigOrders :
          LET der == _calc_system(Mm, Cm, Km, d, order)
          IN  /\ _M = Mm /\ _C = Cm /\ _K = Km
              /\ n = d
              /\ lapack = order
              /\ evalues = der.evalues
              /\ evectors = der.evectors
              /\ wn = der.wn
              /\ wd = der.wd
              /\ H = der.H
              /\ fr = NoCall
              /\ fr_prev = NoCall
              /\ last = "__init__"

\* the M setter
SetM ==
    \E value \in DiagOver(n, MVals) :
        /\ _M' = value
        /\ Recalc(value, _C, _K)
        /\ fr' = NoCall /\ fr_prev' = NoCall /\ last' = "M"
        /\ UNCHANGED <<_C, _K, n, lapack, ixVars, frfVars, modeVars, pfVars, repeatVars, heapVars>>

\* the C setter
SetC ==
    \E value \in DiagOver(n, CVals) :
        /\ _C' = value
        /\ Recalc(_M, value, _K)
        /\ fr' = NoCall /\ fr_prev' = NoCall /\ last' = "C"
        /\ UNCHANGED <<_M, _K, n, lapack, ixVars, frfVars, modeVars, pfVars, repeatVars, heapVars>>

\* a K setter that stores the value and leaves the derived quantities alone
SetK_stale ==
    \E value \in DiagOver(n, KVals) :
        /\ _K' = value
        /\ fr' = NoCall /\ fr_prev' = NoCall /\ last' = "K"
        /\ UNCHANGED <<_M, _C, n, lapack, evalues, evectors, wn, wd, H, ixVars, frfVars, modeVars, pfVars, repeatVars, heapVars>>

\* the K setter
SetK ==
    \E value \in DiagOver(n, KVals) :
        /\ _K' = value
        /\ Recalc(_M, _C, value)
        /\ fr' = NoCall /\ fr_prev' = NoCall /\ last' = "K"
        /\ UNCHANGED <<_M, _C, n, lapack, ixVars, frfVars, modeVars, pfVars, repeatVars, heapVars>>

(***************************************************************************)
(* VibeSystem.freq_response(omega, modes)                                  *)
(***************************************************************************)
\* number of points of the default frequency grid
DefaultPoints == 1000

\* np.linspace, kept as its three arguments
linspace(start, stop, num) == [start |-> start, stop |-> stop, num |-> num]

\* the frequency grids a caller passes
OmegaGrids == {linspace(0, 30, 4)}

\* the mode lists a caller passes: ascending lists of modes among 0..n-1
ModeLists(nn) == {SetToSeq(S) : S \in SUBSET (0..(nn - 1))}

MaxOf(S) == CHOOSE x \in S : \A y \in S : y <= x

\* range(k), as an array
range(k) == Arr([p \in 1..k |-> p - 1])

\* the default grid: np.linspace(0, max(evals.imag) * 1.5, 1000)
DefaultOmega(evals) ==
    linspace(0, (3 * MaxOf({Im(evals[p]) : p \in DOMAIN evals})) \div 2, DefaultPoints)

\* idx[0:m] = modes; idx[m:] = range(2 * n)[-m:]
ModeIdx(modes, nn) ==
    LET m == Len(modes)
    IN  modes \o SubSeq(range(2 * nn), 2 * nn - m + 1, 2 * nn)

\* The result of freq_response: the grid and the eigen-indices the modal sum
\* H = C psi[:, idx] diag(1/(jw - evals[idx])) psi_inv[idx, :] B + D runs over.
\* The mode branch sits inside the branch that builds the default grid.
freq_response(omega, modes) ==
    IF omega = None
    THEN IF modes # None
         THEN IF Len(Val(modes)) = 0
              \* range(2n)[-0:] has 2n entries and idx[0:] none
              THEN [outcome |-> "ValueError", omega_arg |-> omega, modes_arg |-> modes,
                    omega |-> None, idx |-> <<>>]
              ELSE [outcome |-> "ok", omega_arg |-> omega, modes_arg |-> modes,
                    omega |-> Some(DefaultOmega(evalues)), idx |-> ModeIdx(Val(modes), n)]
         ELSE [outcome |-> "ok", omega_arg |-> omega, modes_arg |-> modes,
               omega |-> Some(DefaultOmega(evalues)), idx |-> range(Len(evalues))]
    ELSE [outcome |-> "ok", omega_arg |-> omega, modes_arg |-> modes,
          omega |-> omega, idx |-> range(Len(evalues))]

FreqResponse ==
    \E omega \in {Some(g) : g \in OmegaGrids} \cup {None},
       modes \in {Some(l) : l \in ModeLists(n)} \cup {None} :
        /\ fr' = freq_response(omega, modes)
        /\ fr_prev' = fr
        /\ last' = "freq_response"
        /\ UNCHANGED <<_M, _C, _K, n, evalues, evectors, wn, wd, H, lapack, ixVars, frfVars, modeVars, pfVars, repeatVars, heapVars>>

Init == VibeInit /\ IndexIdle /\ FrfIdle /\ ModesIdle /\ PfIdle /\ CallerIdle

Next == SetM \/ SetC \/ SetK \/ FreqResponse

\* a VibeSystem, constructed and then assigned to and read
Spec == Init /\ [][Next]_vars

(***************************************************************************)
(* VibeSystem._index as a function of any 2n eigenvalues that occur in     *)
(* conjugate pairs: the eigenvalue pairs of oscillators, in any order.     *)
(***************************************************************************)
\* largest number of eigenvalue pairs handed to _index
IxPairs == 2

\* the (stiffness, damping) of the oscillators whose eigenvalue pairs are used:
\* two pairs below the rounding step, two above, one real (overdamped) pair
IxOscillators == {<<9, 0>>, <<16, 0>>, <<400, 0>>, <<900, 0>>, <<400, 50>>}

IxPairVals == {PairRoots(-o[1], -o[2]) : o \in IxOscillators}

Orders(d) == {f \in [1..d -> 1..d] : \A i, j \in 1..d : f[i] = f[j] => i = j}

\* the eigenvalue arrays: d pairs, listed in any order
IxInputs ==
    UNION {{Arr([p \in 1..(2 * d) |-> ps[(f[p] + 1) \div 2][2 - (f[p] % 2)]]) :
              ps \in [1..d -> IxPairVals], f \in Orders(2 * d)} :
           d \in 1..IxPairs}

IndexInit == VibeIdle /\ FrfIdle /\ ModesIdle /\ PfIdle /\ CallerIdle /\ ix_out = None /\ ix_in \in {Some(e) : e \in IxInputs}

IndexApply ==
    /\ ix_out = None
    /\ ix_out' = Some(_index(Val(ix_in)))
    /\ UNCHANGED <<ix_in, vibeVars, frfVars, modeVars, pfVars, repeatVars, heapVars>>

SpecIndex == IndexInit /\ [][IndexApply]_vars

(***************************************************************************)
(* euler_beam_modes and euler_beam_frf.                                    *)
(* Fixed point: eigenvalue parameters Bnl in units of 0.01, angular        *)
(* frequencies in units of 0.01 rad/s, frequencies fmax in Hz, lengths and *)
(* locations in decimetres; pi is PiE4 / 10^4.                             *)
(***************************************************************************)
PiE4 == 31416

\* beamparams = (E, I, rho, A, L) in model units
StiffBeam == <<1, 1, 1, 1, 1>>
SoftBeam == <<1, 1, 1, 1, 10>>
\* the default beamparams of euler_beam_frf: E I / (rho A) = 499 m^4/s^2, L = 0.4 m
DefaultBeam == <<4990000, 1, 1, 1, 4>>
Beams == {StiffBeam, SoftBeam, DefaultBeam}

\* 100 * sqrt(E I / (rho A L^4))
BeamFactor(beamparams) ==
    (ISqrt((beamparams[1] * beamparams[2] * 100) \div (beamparams[3] * beamparams[4])) * 10)
        \div (beamparams[5] * beamparams[5])

\* the tables Bnllow of the boundary conditions 1..5, times 100
Bnllow(bctype) ==
    CASE bctype = 1 -> <<0, 0, 473, 785, 1100, 1414, 1728>>
      [] bctype = 2 -> <<188, 469, 785, 1099, 1414>>
      [] bctype = 3 -> <<393, 707, 1021, 1335, 1649>>
      [] bctype = 4 -> <<237, 550, 864, 1178, 1492>>
      [] bctype = 5 -> <<473, 785, 1100, 1414, 1728>>

\* the highest mode number read from the table
TableUpTo(bctype) == IF bctype = 1 THEN 7 ELSE 4

\* the asymptotic formula of the boundary condition for mode number k, times 100
BnlFormula(bctype, k) ==
    CASE bctype = 1 -> ((2 * k - 3) * PiE4) \div 200
      [] bctype = 2 -> ((2 * k - 1) * PiE4) \div 200
      [] bctype = 3 -> ((4 * k + 1) * PiE4) \div 400
      [] bctype = 4 -> ((4 * k - 1) * PiE4) \div 400
      [] bctype = 5 -> ((2 * k + 1) * PiE4) \div 200
      [] bctype = 6 -> (k * PiE4) \div 100

\* Bnl read from the asymptotic formula at every mode number, without the table
Bnl_formula_only(bctype, nsel, i) == BnlFormula(bctype, nsel[i + 1])

\* Bnl[i] for the 0-based position i of the mode array n (the table is read at
\* the position i, not at the mode number)
Bnl(bctype, nsel, i) ==
    IF bctype = 6 \/ nsel[i + 1] > TableUpTo(bctype)
    THEN BnlFormula(bctype, nsel[i + 1])
    ELSE Bnllow(bctype)[i + 1]

\* w[i]: Bnl[i]^2 * sqrt(E I / (rho A L^4)); 0 for the rigid-body modes
ModeFrequency(bctype, nsel, i, beamparams) ==
    IF bctype = 1 /\ nsel[i + 1] \in {1, 2}
    THEN 0
    ELSE (((Bnl(bctype, nsel, i) * Bnl(bctype, nsel, i)) \div 100) * BeamFactor(beamparams))
            \div 100

\* ModeShape without the two rigid-body branches of the free-free beam
ModeShape_norigid(bctype, nsel, i) ==
    [bctype |-> bctype,
     mode |-> nsel[i + 1],
     formula |-> IF bctype = 6 THEN "sine" ELSE "hyperbolic",
     Bnl |-> Bnl(bctype, nsel, i),
     normalized |-> TRUE]

\* U[:, i], by the formula that produced it, after the normalization pass
ModeShape(bctype, nsel, i) ==
    [bctype |-> bctype,
     mode |-> nsel[i + 1],
     formula |-> IF bctype = 1 /\ nsel[i + 1] = 1 THEN "constant"
                 ELSE IF bctype = 1 /\ nsel[i + 1] = 2 THEN "linear"
                 ELSE IF bctype = 6 THEN "sine"
                 ELSE "hyperbolic",
     Bnl |-> Bnl(bctype, nsel, i),
     normalized |-> TRUE]

\* euler_beam_modes for the count selector n (n = np.arange(n) + 1) and a
\* boundary condition 1..6: (omega_n, U)
euler_beam_modes(ncount, bctype, beamparams) ==
    LET nsel == Arr([k \in 1..ncount |-> k])
    IN  [omega_n |-> Arr([k \in 1..ncount |-> ModeFrequency(bctype, nsel, k - 1, beamparams)]),
         U |-> Arr([k \in 1..ncount |-> ModeShape(bctype, nsel, k - 1)])]

\* the number of columns of a and of entries of f that euler_beam_frf allocates
Capacity == 100

\* number of points of the frequency grid w
GridPoints == 2001

\* arguments of the calls
BcTypes == 1..6
FMaxs == {0, 1, 120}
Locations == {-1, 0, 1, 11}
DefaultBctype == 2
DefaultFmax == 1000
DefaultZeta == 2

\* direct calls of euler_beam_frf, and calls through ebf and ebf1 (which leave
\* the remaining parameters at their defaults)
FrfCalls ==
    {[via |-> "euler_beam_frf", xin |-> xi, xout |-> xo, fmin |-> 0, fmax |-> fm,
      zeta |-> DefaultZeta, bctype |-> bc, beamparams |-> bp] :
        xi \in Locations, xo \in Locations, fm \in FMaxs, bc \in BcTypes, bp \in Beams}
    \cup
    {[via |-> "ebf", xin |-> xi, xout |-> xo, fmin |-> 0, fmax |-> fm,
      zeta |-> DefaultZeta, bctype |-> DefaultBctype, beamparams |-> DefaultBeam] :
        xi \in Locations, xo \in Locations, fm \in FMaxs}
    \cup
    {[via |-> "ebf1", xin |-> xi, xout |-> xo, fmin |-> 0, fmax |-> DefaultFmax,
      zeta |-> DefaultZeta, bctype |-> DefaultBctype, beamparams |-> DefaultBeam] :
        xi \in Locations, xo \in Locations}

MinOf(S) == CHOOSE x \in S : \A y \in S : x <= y

\* 1.3 * (fmax * 2 * pi), in units of 0.01 rad/s
LoopBound(fmax) == (13 * fmax * 2 * PiE4) \div 1000

\* the loop condition with the bound 1.3 * fmax, without the factor 2 pi
frf_continue_hz(wnarr, fmax) == wnarr[Len(wnarr)] < 130 * fmax

\* the loop condition: wn[-1] < 1.3 * (fmax * 2 * pi)
frf_continue(wnarr, fmax) == wnarr[Len(wnarr)] < LoopBound(fmax)

\* what the caller receives when euler_beam_frf returns `value`: ebf and ebf1
\* unpack the value into two names and return nothing
Returned(via, value) ==
    IF via = "euler_beam_frf"
    THEN [kind |-> "return", value |-> value]
    ELSE IF value = None
         THEN [kind |-> "raise", value |-> Some("TypeError")]
         ELSE [kind |-> "return", value |-> None]

Raised(exc) == [kind |-> "raise", value |-> Some(exc)]

\* entry of euler_beam_frf up to the loop: the grid w, the location check
FrfCall ==
    /\ frf_pc = "idle"
    /\ \E args \in FrfCalls :
        /\ frf_args' = Some(args)
        /\ frf_i' = 0
        /\ IF MinOf({args.xin, args.xout}) < 0
              \/ MaxOf({args.xin, args.xout}) > args.beamparams[5]
           THEN \* print('One or both locations are not on the beam'); return
                /\ frf_pc' = "done"
                /\ frf_out' = Some(Returned(args.via, None))
                /\ UNCHANGED <<frf_wn, frf_a, frf_f>>
           ELSE /\ frf_pc' = "loop"
                /\ frf_wn' = <<0, 0>>
                /\ frf_a' = <<>>
                /\ frf_f' = <<>>
                /\ UNCHANGED frf_out
    /\ UNCHANGED <<vibeVars, ixVars, modeVars, pfVars, repeatVars, heapVars>>

\* the contribution of one mode: rho A Uin Uout / (wn^2 - w^2 + 2 zeta wn w j)
\* over the grid w, kept by its operands
Contribution(args, i, modes) ==
    [mode |-> i,
     wn |-> modes.omega_n[Len(modes.omega_n)],
     Uin |-> [shape |-> modes.U[i], at |-> args.xin],
     Uout |-> [shape |-> modes.U[i], at |-> args.xout],
     zeta |-> args.zeta]

\* one iteration of the while loop
FrfIter ==
    /\ frf_pc = "loop"
    /\ frf_continue(frf_wn, Val(frf_args).fmax)
    /\ LET args == Val(frf_args)
           i == frf_i + 1
           modes == euler_beam_modes(i, args.bctype, args.beamparams)
       IN  /\ frf_i' = i
           /\ frf_wn' = modes.omega_n
           /\ IF i - 1 >= Capacity
              THEN \* a[:, i - 1] is out of bounds
                   /\ frf_pc' = "done"
                   /\ frf_out' = Some(Raised("IndexError"))
                   /\ UNCHANGED <<frf_a, frf_f>>
              ELSE /\ frf_a' = Append(frf_a, Contribution(args, i, modes))
                   /\ IF i >= Capacity
                      THEN \* f[i] is out of bounds
                           /\ frf_pc' = "done"
                           /\ frf_out' = Some(Raised("IndexError"))
                           /\ UNCHANGED frf_f
                      ELSE /\ frf_f' = Append(frf_f, modes.omega_n[i])
                           /\ UNCHANGED <<frf_pc, frf_out>>
    /\ UNCHANGED <<frf_args, vibeVars, ixVars, modeVars, pfVars, repeatVars, heapVars>>

\* sp.sum(a, axis=1): the total curve
sp_sum(a) == [sum_of |-> a]

\* the loop exit without a = a[:, 0:i]: all the columns of sp.empty reach
\* the plots and the caller
FrfReturn_untruncated ==
    /\ frf_pc = "loop"
    /\ ~frf_continue(frf_wn, Val(frf_args).fmax)
    /\ LET args == Val(frf_args)
           a == frf_a \o [k \in 1..(Capacity - Len(frf_a)) |->
                            [mode |-> 0, wn |-> 0,
                             Uin |-> [shape |-> <<>>, at |-> args.xin],
                             Uout |-> [shape |-> <<>>, at |-> args.xout],
                             zeta |-> args.zeta]]
       IN  /\ frf_a' = a
           /\ frf_out' = Some(Returned(args.via,
                   Some([fout |-> linspace(args.fmin, args.fmax, GridPoints), H |-> a]))
                   @@ [plotted |-> <<sp_sum(a), a>>])
    /\ frf_pc' = "done"
    /\ UNCHANGED <<frf_args, frf_i, frf_wn, frf_f, vibeVars, ixVars, modeVars, pfVars, repeatVars, heapVars>>

\* the loop exit: a = a[:, 0:i], the plots, return fout, H
FrfReturn ==
    /\ frf_pc = "loop"
    /\ ~frf_continue(frf_wn, Val(frf_args).fmax)
    /\ LET args == Val(frf_args)
           a == SubSeq(frf_a, 1, frf_i)
       IN  /\ frf_a' = a
           /\ frf_out' = Some(Returned(args.via,
                   Some([fout |-> linspace(args.fmin, args.fmax, GridPoints), H |-> a]))
                   @@ [plotted |-> <<sp_sum(a), a>>])
    /\ frf_pc' = "done"
    /\ UNCHANGED <<frf_args, frf_i, frf_wn, frf_f, vibeVars, ixVars, modeVars, pfVars, repeatVars, heapVars>>

FrfInit == VibeIdle /\ IndexIdle /\ FrfIdle /\ ModesIdle /\ PfIdle /\ CallerIdle

FrfNext == FrfCall \/ FrfIter \/ FrfReturn

\* one call of euler_beam_frf, directly or through ebf / ebf1
SpecFrf == FrfInit /\ [][FrfNext]_vars

(***************************************************************************)
(* The mode solvers euler_beam_modes, uniform_bar_modes and                *)
(* torsional_bar_modes as functions of their arguments.  A result is       *)
(* (omega_n, x, U); a grid is kept as its np.linspace arguments, a mode    *)
(* shape column by the formula and the grid that produced it, with sampled *)
(* values (units of 0.001) where the formula is a polynomial.  np.empty    *)
(* leaves an array holding whatever the memory held: entries no branch     *)
(* writes are arbitrary.                                                   *)
(***************************************************************************)
\* the selector n: an int (highest mode number) or an array of mode numbers
IntSel(k) == [kind |-> "int", value |-> <<k>>]
ArraySel(a) == [kind |-> "array", value |-> a]

\* isinstance(n, int): n = np.arange(n) + 1; otherwise n is used as given
ModeNumbers(sel) ==
    IF sel.kind = "int" THEN Arr([k \in 1..sel.value[1] |-> k]) ELSE sel.value

\* a / b rounded toward zero, b > 0 (floating point division is symmetric)
DivT(a, b) == IF a < 0 THEN -((-a) \div b) ELSE a \div b

RECURSIVE SumSq(_)
SumSq(v) == IF v = <<>> THEN 0 ELSE v[1] * v[1] + SumSq(Tail(v))

\* np.linspace(0, 1, npoints), in units of 0.001
XNormed(npoints) == Arr([p \in 1..npoints |-> ((p - 1) * 1000) \div (npoints - 1)])

\* U[:, i] = 1 + x_normed * 0 and U[:, i] = x_normed - 0.5, in units of 0.001
RigidValues(formula, npoints) ==
    IF formula = "constant"
    THEN Arr([p \in 1..npoints |-> 1000])
    ELSE Arr([p \in 1..npoints |-> XNormed(npoints)[p] - 500])

\* U[:, i] / np.sqrt(np.dot(U[:, i], U[:, i]) * mass), in units of 0.001
Normalize(values, mass) ==
    LET norm == ISqrt(SumSq(values) * mass)
    IN  Arr([p \in 1..Len(values) |-> DivT(values[p] * 1000, norm)])

\* a column no branch wrote, after `passes` normalization passes
JunkColumn(normalized) ==
    [shape |-> [formula |-> "uninitialized", normalized |-> normalized],
     values |-> None, on |-> None]

\* the arbitrary value of entry i (0-based) of an unwritten array
JunkAt(junk, i) == junk[1 + (i % Len(junk))]

\* the table Bnllow is read at a position it does not have
BnllowOutOfRange(bctype, nsel) ==
    /\ bctype \in 1..5
    /\ \E i \in 0..(Len(nsel) - 1) :
          nsel[i + 1] <= TableUpTo(bctype) /\ i + 1 > Len(Bnllow(bctype))

\* euler_beam_modes for any selector n and any bctype
euler_beam_modes_sel(sel, bctype, npoints, beamparams, junk) ==
    LET nsel == ModeNumbers(sel)
        ln == Len(nsel)
        x == linspace(0, beamparams[5], npoints)
        mass == beamparams[3] * beamparams[4] * beamparams[5]
        column(i) ==
            LET shape == ModeShape(bctype, nsel, i)
            IN  [shape |-> shape,
                 values |-> IF shape.formula \in {"constant", "linear"}
                            THEN Some(Normalize(RigidValues(shape.formula, npoints), mass))
                            ELSE None,
                 on |-> Some(x)]
    IN  IF BnllowOutOfRange(bctype, nsel)
        THEN [kind |-> "raise", value |-> Some("IndexError"), assigned |-> {},
              printed |-> <<>>]
        ELSE IF bctype \in 1..6
        THEN [kind |-> "return",
              value |-> Some([
                  omega_n |-> Arr([k \in 1..ln |->
                                  ModeFrequency(bctype, nsel, k - 1, beamparams)]),
                  x |-> x,
                  U |-> Arr([k \in 1..ln |-> column(k - 1)])]),
              assigned |-> 0..(ln - 1),
              printed |-> <<>>]
        ELSE [kind |-> "return",
              value |-> Some([
                  omega_n |-> Arr([k \in 1..ln |-> JunkAt(junk, k - 1)]),
                  x |-> x,
                  U |-> Arr([k \in 1..ln |-> JunkColumn(TRUE)])]),
              assigned |-> {},
              printed |-> <<>>]

\* 100 * np.sqrt(E / rho)
BarSpeed(barparams) == ISqrt((barparams[1] * 10000) \div barparams[2])

\* w[i] of the bar and of the torsional bar for the 0-based position i, from
\* the wave speed c100 = 100 c, in units of 0.01 rad/s
BarFrequency(bctype, i, c100, L) ==
    CASE bctype = 1 -> (i * PiE4 * c100) \div (10000 * L)
      [] bctype = 2 -> ((2 * i - 1) * PiE4 * c100) \div (20000 * L)
      [] bctype = 3 -> (i * PiE4 * c100) \div (10000 * L)

\* U[:, i] of uniform_bar_modes: cos / sin of (num * pi / den) * lenth
BarShape(bctype, i, L) ==
    CASE bctype = 1 -> [formula |-> "cos", wavenumber |-> <<i, L>>, normalized |-> FALSE]
      [] bctype = 2 -> [formula |-> "sin", wavenumber |-> <<2 * i - 1, 2 * L>>,
                        normalized |-> FALSE]
      [] bctype = 3 -> [formula |-> "sin", wavenumber |-> <<i, 2 * L>>,
                        normalized |-> FALSE]

\* uniform_bar_modes as the module binds the name: the second definition,
\* which has no keyword kl_over_EA or m_over_rhoAL
uniform_bar_modes(sel, bctype, npoints, barparams, keywords, junk) ==
    LET ln == Len(ModeNumbers(sel))
        L == barparams[3]
        lenth == linspace(0, L, npoints)
        x == linspace(0, L * L, npoints)
    IN  IF keywords # {}
        THEN [kind |-> "raise", value |-> Some("TypeError"), assigned |-> {},
              printed |-> <<>>]
        ELSE IF bctype \in 1..3
        THEN [kind |-> "return",
              value |-> Some([
                  omega_n |-> Arr([k \in 1..ln |->
                                  BarFrequency(bctype, k - 1, BarSpeed(barparams), L)]),
                  x |-> x,
                  U |-> Arr([k \in 1..ln |->
                            [shape |-> BarShape(bctype, k - 1, L), values |-> None,
                             on |-> Some(lenth)]])]),
              assigned |-> 0..(ln - 1),
              printed |-> <<>>]
        ELSE [kind |-> "return",
              value |-> Some([
                  omega_n |-> Arr([k \in 1..ln |-> JunkAt(junk, k - 1)]),
                  x |-> x,
                  U |-> Arr([k \in 1..ln |-> JunkColumn(FALSE)])]),
              assigned |-> {},
              printed |-> <<>>]

\* the number of entries of cspar the cross-section type reads
CsparRead(cstype) ==
    CASE cstype = 1 -> 1
      [] cstype = 2 -> 2
      [] cstype = 3 -> 2
      [] cstype = 4 -> 4

\* 100 g: the torsional constant of the cross-section
TorsionalConstant(cstype, cspar) ==
    CASE cstype = 1 -> (PiE4 * cspar[1] * cspar[1] * cspar[1] * cspar[1]) \div 200
      [] cstype = 2 -> (PiE4 * (cspar[2] * cspar[2] * cspar[2] * cspar[2]
                                - cspar[1] * cspar[1] * cspar[1] * cspar[1])) \div 200
      [] cstype = 3 -> (1406 * cspar[2] * cspar[2] * cspar[2] * cspar[2]) \div 100
      [] cstype = 4 ->
            LET a == cspar[1]
                b == cspar[2]
                A_ == cspar[3]
                B_ == cspar[4]
            IN  DivT(100 * 2 * A_ * B_ * (a - A_) * (a - A_) * (b - B_) * (b - B_)
                        * (IF a * A_ + b * B_ - A_ * A_ - B_ * B_ < 0 THEN -1 ELSE 1),
                     AbsInt(a * A_ + b * B_ - A_ * A_ - B_ * B_))

\* U[:, i] of torsional_bar_modes: cos / sin of (num * pi / den) * x
TorsionalShape(bctype, i, L) ==
    CASE bctype = 1 -> [formula |-> "cos", wavenumber |-> <<i, L>>, normalized |-> TRUE]
      [] bctype = 2 -> [formula |-> "sin", wavenumber |-> <<2 * i - 1, 2 * L>>,
                        normalized |-> TRUE]
      [] bctype = 3 -> [formula |-> "sin", wavenumber |-> <<i, L>>, normalized |-> TRUE]

\* torsional_bar_modes; tbarparams = (G, J, rho, L)
torsional_bar_modes(sel, bctype, cstype, npoints, tbarparams, cspar, junk) ==
    LET ln == Len(ModeNumbers(sel))
        L == tbarparams[4]
        x == linspace(0, L, npoints)
        short == cstype = 4 /\ Len(cspar) # 4
        said1 == IF short THEN <<"Not enough parameters for cstype 4">> ELSE <<>>
    IN  IF cstype \notin 1..4
        THEN \* g is not bound when `if g<=0` reads it
             [kind |-> "raise", value |-> Some("UnboundLocalError"), assigned |-> {},
              printed |-> <<>>, g |-> None]
        ELSE IF Len(cspar) < CsparRead(cstype)
        THEN [kind |-> "raise", value |-> Some("IndexError"), assigned |-> {},
              printed |-> said1, g |-> None]
        ELSE
        LET g == TorsionalConstant(cstype, cspar)
            said == IF g <= 0
                    THEN Append(said1, "The constant gamma is less than or equal to zero.")
                    ELSE said1
            \* c = np.sqrt(G * g / (rho * J)): nan for a negative argument
            nan == g < 0
            c100 == IF nan THEN 0
                    ELSE ISqrt((tbarparams[1] * g * 100) \div (tbarparams[3] * tbarparams[2]))
        IN  IF bctype \in 1..3
            THEN [kind |-> "return",
                  value |-> Some([
                      omega_n |-> Arr([k \in 1..ln |-> BarFrequency(bctype, k - 1, c100, L)]),
                      nan |-> nan,
                      x |-> x,
                      U |-> Arr([k \in 1..ln |->
                                [shape |-> TorsionalShape(bctype, k - 1, L), values |-> None,
                                 on |-> Some(x)]])]),
                  assigned |-> 0..(ln - 1),
                  printed |-> said, g |-> Some(g)]
            ELSE [kind |-> "return",
                  value |-> Some([
                      omega_n |-> Arr([k \in 1..ln |-> JunkAt(junk, k - 1)]),
                      nan |-> FALSE,
                      x |-> x,
                      U |-> Arr([k \in 1..ln |-> JunkColumn(TRUE)])]),
                  assigned |-> {},
                  printed |-> said, g |-> Some(g)]

\* the values an unwritten entry may hold, and the contents of unwritten memory
JunkVals == {0, 7}
Junks == [1..2 -> JunkVals]

\* the selectors of the calls
MaxCount == 8
BeamSelectors ==
    {IntSel(k) : k \in 1..MaxCount} \cup {ArraySel(<<k>>) : k \in 1..MaxCount}
    \cup {ArraySel(<<3, 1>>), ArraySel(<<5, 2>>), ArraySel(<<1, 2, 3, 4, 5, 1>>)}
BarSelectors == {IntSel(k) : k \in 1..3} \cup {ArraySel(<<2>>), ArraySel(<<3, 1>>)}

\* numbers of grid points
NPoints == {3, 5}

\* barparams = (E, rho, L) and tbarparams = (G, J, rho, L)
Bars == {<<4, 1, 1>>, <<1, 1, 2>>, <<4, 1, 3>>}
TBars == {<<1, 1, 1, 1>>, <<4, 1, 1, 2>>}

\* cspar: a radius; two radii, ascending, descending and equal; hollow
\* rectangles with positive and negative constant; three and five parameters
CsPars == {<<2>>, <<1, 2>>, <<2, 1>>, <<2, 2>>, <<3, 3, 1, 1>>, <<1, 1, 2, 2>>,
           <<3, 3, 1>>, <<3, 3, 1, 1, 1>>}

ModeCalls ==
    {[solver |-> "euler_beam_modes", n |-> sel, bctype |-> bc, npoints |-> np,
      params |-> bp, cstype |-> 0, cspar |-> <<>>, keywords |-> {}] :
        sel \in BeamSelectors, bc \in 0..7, np \in NPoints, bp \in Beams}
    \cup
    {[solver |-> "uniform_bar_modes", n |-> sel, bctype |-> bc, npoints |-> np,
      params |-> bp, cstype |-> 0, cspar |-> <<>>, keywords |-> kw] :
        sel \in BarSelectors, bc \in 0..5, np \in NPoints, bp \in Bars,
        kw \in {{}, {"kl_over_EA"}, {"m_over_rhoAL"}}}
    \cup
    {[solver |-> "torsional_bar_modes", n |-> sel, bctype |-> bc, npoints |-> np,
      params |-> bp, cstype |-> cs, cspar |-> cp, keywords |-> {}] :
        sel \in BarSelectors, bc \in 0..4, np \in NPoints, bp \in TBars,
        cs \in 0..5, cp \in CsPars}

ModesInit ==
    /\ VibeIdle /\ IndexIdle /\ FrfIdle /\ PfIdle /\ CallerIdle
    /\ ms_call \in {Some(c) : c \in ModeCalls}
    /\ ms_out = None

EulerBeamModes ==
    /\ ms_out = None
    /\ Val(ms_call).solver = "euler_beam_modes"
    /\ \E junk \in Junks :
         LET c == Val(ms_call)
         IN  ms_out' = Some(euler_beam_modes_sel(c.n, c.bctype, c.npoints, c.params, junk))
    /\ UNCHANGED <<ms_call, vibeVars, ixVars, frfVars, pfVars, repeatVars, heapVars>>

UniformBarModes ==
    /\ ms_out = None
    /\ Val(ms_call).solver = "uniform_bar_modes"
    /\ \E junk \in Junks :
         LET c == Val(ms_call)
         IN  ms_out' = Some(uniform_bar_modes(c.n, c.bctype, c.npoints, c.params,
                                              c.keywords, junk))
    /\ UNCHANGED <<ms_call, vibeVars, ixVars, frfVars, pfVars, repeatVars, heapVars>>

TorsionalBarModes ==
    /\ ms_out = None
    /\ Val(ms_call).solver = "torsional_bar_modes"
    /\ \E junk \in Junks :
         LET c == Val(ms_call)
         IN  ms_out' = Some(torsional_bar_modes(c.n, c.bctype, c.cstype, c.npoints,
                                                c.params, c.cspar, junk))
    /\ UNCHANGED <<ms_call, vibeVars, ixVars, frfVars, pfVars, repeatVars, heapVars>>

ModesNext == EulerBeamModes \/ UniformBarModes \/ TorsionalBarModes

\* one call of a mode solver
SpecModes == ModesInit /\ [][ModesNext]_vars

(***************************************************************************)
(* VibeSystem.A() and the modal synthesis of VibeSystem.freq_response on   *)
(* coupled systems, in exact arithmetic.  A complex number is here a       *)
(* triple <<re, im, den>> for (re + j im) / den with den > 0, in lowest    *)
(* terms; a matrix is a sequence of rows.                                  *)
(***************************************************************************)
CNorm(re, im, den) ==
    LET g == Gcd(Gcd(AbsInt(re), AbsInt(im)), AbsInt(den))
        sgn == IF den < 0 THEN -1 ELSE 1
    IN  <<(sgn * re) \div g, (sgn * im) \div g, (sgn * den) \div g>>

\* x + y over the least common denominator
CAdd(x, y) ==
    LET g == Gcd(x[3], y[3])
        fx == y[3] \div g
        fy == x[3] \div g
    IN  CNorm(x[1] * fx + y[1] * fy, x[2] * fx + y[2] * fy, x[3] * fx)

\* x * y, common factors of numerators and denominators cancelled first
CMul(x, y) ==
    LET gx == Gcd(Gcd(AbsInt(x[1]), AbsInt(x[2])), y[3])
        gy == Gcd(Gcd(AbsInt(y[1]), AbsInt(y[2])), x[3])
        a == x[1] \div gx
        b == x[2] \div gx
        c == y[1] \div gy
        d == y[2] \div gy
    IN  CNorm(a * c - b * d, a * d + b * c, (x[3] \div gy) * (y[3] \div gx))
CNeg(x) == <<-x[1], -x[2], x[3]>>
\* 1 / x
CInv(x) == CNorm(x[1] * x[3], -(x[2] * x[3]), x[1] * x[1] + x[2] * x[2])
\* abs(x) ^ 2, a rational
CAbsSq(x) == Rat(x[1] * x[1] + x[2] * x[2], x[3] * x[3])

FromRat(r) == <<r[1], 0, r[2]>>
FromComplex(z) == <<z[1], z[2], 1>>

RECURSIVE CSum(_)
CSum(xs) == IF xs = <<>> THEN <<0, 0, 1>> ELSE CAdd(xs[1], CSum(Tail(xs)))

\* X @ Y
CMatMul(X, Y) ==
    Arr([i \in 1..Len(X) |-> Arr([j \in 1..Len(Y[1]) |->
        CSum(Arr([k \in 1..Len(Y) |-> CMul(X[i][k], Y[k][j])]))])])

CMatAdd(X, Y) ==
    Arr([i \in 1..Len(X) |-> Arr([j \in 1..Len(X[i]) |-> CAdd(X[i][j], Y[i][j])])])

RemoveAt(xs, i) == SubSeq(xs, 1, i - 1) \o SubSeq(xs, i + 1, Len(xs))

\* the matrix without row i and column j
Minor(X, i, j) ==
    LET rows == RemoveAt(X, i)
    IN  Arr([r \in 1..Len(rows) |-> RemoveAt(rows[r], j)])

RECURSIVE CDet(_)
CDet(X) ==
    IF Len(X) = 1 THEN X[1][1]
    ELSE CSum(Arr([j \in 1..Len(X) |->
            LET t == CMul(X[1][j], CDet(Minor(X, 1, j)))
            IN  IF j % 2 = 1 THEN t ELSE CNeg(t)]))

\* la.inv of an invertible matrix
la_inv(X) ==
    Once({Arr([i \in 1..Len(X) |-> Arr([j \in 1..Len(X) |->
              LET c == CMul(CDet(Minor(X, j, i)), dinv)
              IN  IF (i + j) % 2 = 0 THEN c ELSE CNeg(c)])]) :
              dinv \in {CInv(CDet(X))}})

\* the array of eigenvector columns as the matrix psi
PsiOf(evecs) ==
    Arr([r \in 1..Len(evecs[1]) |-> Arr([k \in 1..Len(evecs) |-> FromComplex(evecs[k][r])])])

\* a matrix of rationals as a complex matrix
CMat(X) == Arr([i \in 1..Len(X) |-> Arr([j \in 1..Len(X[i]) |-> FromRat(X[i][j])])])

\* 1 / (1j * w - lam)
ModalGain(w, lam) == CInv(<<-lam[1], w - lam[2], 1>>)

\* np.diag
CDiag(d) ==
    Arr([i \in 1..Len(d) |-> Arr([j \in 1..Len(d) |-> IF i = j THEN d[i] ELSE <<0, 0, 1>>])])

\* H = C @ psi_m @ diag @ psi_inv_m @ B + D at the frequency w, for the
\* eigen-indices idx (0-based), from the fields of the VibeSystem
Synthesis(w, idx) ==
    Once({Once({Once({Once({Once({Once({CMatAdd(P4, D) :
                  P4 \in {CMatMul(P3, B)}}) :
                P3 \in {CMatMul(P2, psi_inv_m)}}) :
              P2 \in {CMatMul(P1, diag)}}) :
            P1 \in {CMatMul(C, psi_m)}}) :
          psi_m \in {Arr([r \in 1..Len(psi) |->
                          Arr([p \in 1..Len(idx) |-> psi[r][idx[p] + 1]])])},
          psi_inv_m \in {Arr([p \in 1..Len(idx) |-> psi_inv[idx[p] + 1]])},
          diag \in {CDiag(Arr([p \in 1..Len(idx) |-> ModalGain(w, evalues[idx[p] + 1])]))}}) :
        psi \in {PsiOf(evectors)}, psi_inv \in {la_inv(PsiOf(evectors))},
        B \in {CMat(H.B)}, C \in {CMat(H.C)}, D \in {CMat(H.D)}})

\* matrices [[a, b], [b, a]] and [[a, 0], [0, d]]
Sym2(a, b) == << <<a, b>>, <<b, a>> >>

\* the systems asked for A(): single oscillators; the 2-DOF system of the
\* doctest; undamped and damped chains of equal masses; uncoupled unequal
\* masses; non-diagonal mass matrices
SysSystems ==
    {<< <<<<m>>>>, <<<<c>>>>, <<<<k>>>> >> : m \in {1, 4}, c \in {0, 4}, k \in {400, 900}}
    \cup {<<Sym2(1, 0), Sym2(2, -1), Sym2(2000, -1000)>>}
    \cup {<<Sym2(m, 0), Sym2(c, 0), K>> :
              m \in {1, 4}, c \in {0, 4},
              K \in {Sym2(650, -250), Sym2(1000, -600), Diag(<<400, 900>>)}}
    \cup {<<Diag(<<1, 2>>), Sym2(c, 0), Diag(<<400, 900>>)>> : c \in {0, 4}}
    \cup {<<Mm, Cm, Km>> :
              Mm \in {Sym2(2, 1), Sym2(5, 3)},
              Cm \in {Sym2(0, 0), Sym2(4, 0), Sym2(2, -1)},
              Km \in {Sym2(650, -250), Sym2(1000, -600), Sym2(2000, -1000)}}

\* the systems asked for freq_response(): single oscillators, undamped and
\* damped, and undamped 2-DOF systems, coupled and uncoupled
StaticSystems ==
    {<< <<<<m>>>>, <<<<0>>>>, <<<<k>>>> >> : m \in {1, 4}, k \in {400, 900}}
    \cup {<< <<<<1>>>>, <<<<12>>>>, <<<<100>>>> >>, << <<<<4>>>>, <<<<48>>>>, <<<<400>>>> >>}
    \cup {<<Sym2(m, 0), Sym2(0, 0), K>> :
              m \in {1, 4},
              K \in {Sym2(650, -250), Sym2(1000, -600), Diag(<<400, 900>>)}}
    \cup {<<Sym2(2, 1), Sym2(0, 0), Sym2(350, -50)>>}

\* VibeSystem.__init__ on one of the systems
SysInitFrom(systems) ==
    /\ IndexIdle /\ FrfIdle /\ ModesIdle /\ PfIdle /\ CallerIdle
    /\ \E sys \in systems, order \in EigOrders :
          LET der == calc_system(sys[1], sys[2], sys[3], Len(sys[1]), order)
          IN  /\ _M = sys[1] /\ _C = sys[2] /\ _K = sys[3]
              /\ n = Len(sys[1])
              /\ lapack = order
              /\ evalues = der.evalues
              /\ evectors = der.evectors
              /\ wn = der.wn
              /\ wd = der.wd
              /\ H = der.H
              /\ fr = NoCall
              /\ fr_prev = NoCall
              /\ last = "__init__"

\* sys.A()
CallA ==
    /\ pf_call' = Some([fn |-> "A", omega |-> None, modes |-> None])
    /\ pf_out' = Some([A |-> A(_M, _C, _K, n)])
    /\ last' = "A"
    /\ UNCHANGED <<_M, _C, _K, n, evalues, evectors, wn, wd, H, lapack, fr, fr_prev,
                   ixVars, frfVars, modeVars, repeatVars, heapVars>>

\* the frequency grids of the calls on these systems
SysGrids == {linspace(0, 30, 4), linspace(5, 45, 5)}

\* magh = 20.0 * np.log10(abs(H)), entry by entry; a magnitude in dB is kept
\* as the rational abs(h) ^ 2 it is the logarithm of
magh(Hm) ==
    Arr([o \in 1..Len(Hm) |-> Arr([i \in 1..Len(Hm[o]) |->
        [ten_log10_of |-> CAbsSq(Hm[o][i])]])])

\* sys.freq_response(omega, modes), called once on the constructed system:
\* the grid, the eigen-indices, and the transfer matrix H with its magnitude
\* at the first frequency of the grid
CallFreqResponse ==
    /\ pf_call = None
    /\ \E omega \in {Some(g) : g \in SysGrids} \cup {None},
       modes \in {Some(l) : l \in ModeLists(n) \ {<<>>}} \cup {None} :
      \E res \in {freq_response(omega, modes)} :
        \E H0 \in {Synthesis(Val(res.omega).start, res.idx)} :
            /\ fr' = res
            /\ fr_prev' = fr
            /\ pf_call' = Some([fn |-> "freq_response", omega |-> omega, modes |-> modes])
            /\ pf_out' = Some([omega |-> Val(res.omega), magdb |-> magh(H0)])
            /\ last' = "freq_response"
            /\ UNCHANGED <<_M, _C, _K, n, evalues, evectors, wn, wd, H, lapack,
                           ixVars, frfVars, modeVars, repeatVars, heapVars>>

SysInit == SysInitFrom(SysSystems)

\* a VibeSystem, constructed and then asked for A()
SpecSys == SysInit /\ [][CallA]_vars

StaticInit == SysInitFrom(StaticSystems)

\* a VibeSystem, constructed and then asked once for freq_response()
SpecStatic == StaticInit /\ [][CallFreqResponse]_vars

(***************************************************************************)
(* VibeSystem.__init__ and the setters with any matrices a caller can      *)
(* pass: singular mass matrices and matrices of another dimension.         *)
(* _calc_system raises before its first assignment or not at all: the      *)
(* first statement evaluates A(), and _H repeats the solves A() has made.  *)
(***************************************************************************)
\* the determinant of a 1 x 1 or 2 x 2 matrix
Det(X) == IF Len(X) = 1 THEN X[1][1] ELSE X[1][1] * X[2][2] - X[1][2] * X[2][1]

\* the exception _calc_system raises, or "none": la.solve(-M, K) checks the
\* row counts, then factors M; la.solve(-M, C) likewise; np.vstack needs
\* the 2n columns of [Z, I] to be the 2 len(M) columns of the lower blocks
CalcRaises(Mm, Cm, Km, nn) ==
    IF Len(Mm) # Len(Km) THEN "ValueError"
    ELSE IF Det(Mm) = 0 THEN "LinAlgError"
    ELSE IF Len(Mm) # Len(Cm) THEN "ValueError"
    ELSE IF nn # Len(Mm) THEN "ValueError"
    ELSE "none"

\* the matrices a caller passes
AssignMs == {<<<<1>>>>, <<<<0>>>>, Diag(<<1, 2>>), Diag(<<1, 0>>), Sym2(1, 1)}
AssignCs == {<<<<0>>>>, <<<<4>>>>, Diag(<<0, 4>>)}
AssignKs == {<<<<400>>>>, <<<<900>>>>, Diag(<<400, 900>>)}

ACall(fn, Mm, Cm, Km) == [fn |-> fn, M |-> Mm, C |-> Cm, K |-> Km]
Outcome(exc) == [kind |-> IF exc = "none" THEN "return" ELSE "raise", exc |-> exc]

\* a VibeSystem object exists and its caller holds it
Observable == last # "none"

\* the call VibeSystem(M, C, K) is placed
AssignInit ==
    /\ VibeIdle /\ IndexIdle /\ FrfIdle /\ ModesIdle /\ CallerIdle
    /\ pf_out = None
    /\ \E Mm \in AssignMs, Cm \in AssignCs, Km \in AssignKs :
          pf_call = Some(ACall("__init__", Some(Mm), Some(Cm), Some(Km)))

\* VibeSystem.__init__ where _calc_system raises: the fields are assigned,
\* the derived ones None, and the half-built object reaches the caller
Construct_partial ==
    /\ ~Observable /\ pf_out = None
    /\ \E order \in EigOrders :
        LET c == Val(pf_call)
            exc == CalcRaises(Val(c.M), Val(c.C), Val(c.K), Len(Val(c.M)))
        IN  /\ pf_out' = Some(Outcome(exc))
            /\ _M' = Val(c.M) /\ _C' = Val(c.C) /\ _K' = Val(c.K)
            /\ n' = Len(Val(c.M))
            /\ lapack' = order
            /\ last' = "__init__"
            /\ IF exc = "none"
               THEN LET d == _calc_system(Val(c.M), Val(c.C), Val(c.K), Len(Val(c.M)), order)
                    IN  /\ evalues' = d.evalues /\ evectors' = d.evectors
                        /\ wn' = d.wn /\ wd' = d.wd /\ H' = d.H
               ELSE /\ evalues' = None /\ evectors' = None
                    /\ wn' = None /\ wd' = None /\ H' = None
            /\ UNCHANGED <<fr, fr_prev, pf_call, ixVars, frfVars, modeVars,
                           repeatVars, heapVars>>

\* VibeSystem.__init__: the fields, n = len(M), then _calc_system; an
\* exception leaves the caller without an object
Construct ==
    /\ ~Observable /\ pf_out = None
    /\ \E order \in EigOrders :
        LET c == Val(pf_call)
            exc == CalcRaises(Val(c.M), Val(c.C), Val(c.K), Len(Val(c.M)))
        IN  /\ pf_out' = Some(Outcome(exc))
            /\ IF exc = "none"
               THEN LET d == _calc_system(Val(c.M), Val(c.C), Val(c.K), Len(Val(c.M)), order)
                    IN  /\ _M' = Val(c.M) /\ _C' = Val(c.C) /\ _K' = Val(c.K)
                        /\ n' = Len(Val(c.M))
                        /\ lapack' = order
                        /\ evalues' = d.evalues /\ evectors' = d.evectors
                        /\ wn' = d.wn /\ wd' = d.wd /\ H' = d.H
                        /\ last' = "__init__"
               ELSE UNCHANGED <<_M, _C, _K, n, lapack, evalues, evectors, wn, wd, H, last>>
            /\ UNCHANGED <<fr, fr_prev, pf_call, ixVars, frfVars, modeVars,
                           repeatVars, heapVars>>

\* the assignments of a setter after self._X = value: _calc_system, which
\* reassigns every derived field or raises and reassigns none
Recompute(Mm, Cm, Km, exc) ==
    /\ pf_out' = Some(Outcome(exc))
    /\ IF exc = "none"
       THEN Recalc(Mm, Cm, Km)
       ELSE UNCHANGED <<evalues, evectors, wn, wd, H>>
    /\ fr' = NoCall /\ fr_prev' = NoCall
    /\ UNCHANGED <<n, lapack, ixVars, frfVars, modeVars, repeatVars, heapVars>>

\* sys.M = value
AssignM ==
    /\ Observable
    /\ \E value \in AssignMs :
        /\ pf_call' = Some(ACall("M", Some(value), None, None))
        /\ _M' = value
        /\ last' = "M"
        /\ Recompute(value, _C, _K, CalcRaises(value, _C, _K, n))
        /\ UNCHANGED <<_C, _K>>

\* sys.C = value
AssignC ==
    /\ Observable
    /\ \E value \in AssignCs :
        /\ pf_call' = Some(ACall("C", None, Some(value), None))
        /\ _C' = value
        /\ last' = "C"
        /\ Recompute(_M, value, _K, CalcRaises(_M, value, _K, n))
        /\ UNCHANGED <<_M, _K>>

\* sys.K = value
AssignK ==
    /\ Observable
    /\ \E value \in AssignKs :
        /\ pf_call' = Some(ACall("K", None, None, Some(value)))
        /\ _K' = value
        /\ last' = "K"
        /\ Recompute(_M, _C, value, CalcRaises(_M, _C, value, n))
        /\ UNCHANGED <<_M, _C>>

AssignNext == Construct \/ AssignM \/ AssignC \/ AssignK

\* a VibeSystem constructed from, and then assigned, matrices of any kind
SpecAssign == AssignInit /\ [][AssignNext]_vars

(***************************************************************************)
(* The array objects of the caller.  __init__ and the setters store the    *)
(* array object they are given (self._M = M, self._M = value), not a copy: *)
(* `arrays` maps the identity of an array object to its contents, `held`   *)
(* names the objects self._M, self._C, self._K refer to, and _M, _C, _K    *)
(* are the contents read through these references.                         *)
(***************************************************************************)
\* the array objects: one for M, C and K each, and a second mass array
MassIds == {1, 4}
DampingIds == {2}
StiffnessIds == {3}

\* diagonal matrices that differ in their last diagonal entry only
LastEntryOver(d, Vals) ==
    {X \in DiagOver(d, Vals) : \A i \in 1..(d - 1) : X[i][i] = MinOf(Vals)}

\* the contents an array object of dimension d takes: the caller writes the
\* last diagonal entry
ContentsOf(id, d) ==
    IF id \in MassIds THEN LastEntryOver(d, MVals)
    ELSE IF id \in DampingIds THEN LastEntryOver(d, CVals)
    ELSE LastEntryOver(d, KVals)

Refs(m, c, k) == [M |-> m, C |-> c, K |-> k]

\* M, C, K, M2 = np.array(...); sys = VibeSystem(M, C, K)
AliasInit ==
    /\ IndexIdle /\ FrfIdle /\ ModesIdle /\ PfIdle
    /\ ms_prev = None /\ other = None
    /\ held = Some(Refs(1, 2, 3))
    /\ \E d \in 1..NDof, order \in EigOrders :
       \E a1 \in ContentsOf(1, d), a2 \in ContentsOf(2, d),
          a3 \in ContentsOf(3, d), a4 \in ContentsOf(4, d) :
          LET der == _calc_system(a1, a2, a3, d, order)
          IN  /\ arrays = <<a1, a2, a3, a4>>
              /\ _M = a1 /\ _C = a2 /\ _K = a3
              /\ n = d
              /\ lapack = order
              /\ evalues = der.evalues /\ evectors = der.evectors
              /\ wn = der.wn /\ wd = der.wd /\ H = der.H
              /\ fr = NoCall /\ fr_prev = NoCall
              /\ last = "__init__"

\* the caller writes into one of its arrays in place (M[-1, -1] = 2.0): the
\* object changes, and with it what sys.M, sys.C, sys.K read if they refer
\* to it; no method of the VibeSystem runs
WriteArray ==
    \E id \in DOMAIN arrays :
    \E value \in ContentsOf(id, n) \ {arrays[id]} :
        /\ arrays' = [arrays EXCEPT ![id] = value]
        /\ _M' = (IF Val(held).M = id THEN value ELSE _M)
        /\ _C' = (IF Val(held).C = id THEN value ELSE _C)
        /\ _K' = (IF Val(held).K = id THEN value ELSE _K)
        /\ last' = "write"
        /\ UNCHANGED <<n, evalues, evectors, wn, wd, H, lapack, fr, fr_prev, held, other,
                       ms_prev, ixVars, frfVars, modeVars, pfVars>>

\* sys.M = M2, for one of the caller's mass arrays: the setter stores the
\* object and recomputes
SetMObject ==
    \E id \in MassIds :
        /\ held' = Some([Val(held) EXCEPT !.M = id])
        /\ _M' = arrays[id]
        /\ Recalc(arrays[id], _C, _K)
        /\ fr' = NoCall /\ fr_prev' = NoCall /\ last' = "M"
        /\ UNCHANGED <<_C, _K, n, lapack, arrays, other, ms_prev,
                       ixVars, frfVars, modeVars, pfVars>>

\* sys2 = VibeSystem(M, C, K) from the objects the first instance holds
SecondSystem ==
    /\ other = None
    /\ other' = held
    /\ last' = "second"
    /\ UNCHANGED <<_M, _C, _K, n, evalues, evectors, wn, wd, H, lapack, fr, fr_prev,
                   arrays, held, ms_prev, ixVars, frfVars, modeVars, pfVars>>

\* sys2.M = M2: the second instance refers to another object; no array
\* object changes
SecondSetM ==
    /\ other # None
    /\ \E id \in MassIds \ {Val(other).M} :
          other' = Some([Val(other) EXCEPT !.M = id])
    /\ last' = "second.M"
    /\ UNCHANGED <<_M, _C, _K, n, evalues, evectors, wn, wd, H, lapack, fr, fr_prev,
                   arrays, held, ms_prev, ixVars, frfVars, modeVars, pfVars>>

AliasNext == WriteArray \/ SetMObject \/ SecondSystem \/ SecondSetM

\* a VibeSystem and the caller that keeps the arrays it passed
SpecAlias == AliasInit /\ [][AliasNext]_vars

(***************************************************************************)
(* A mode solver called a second time with the arguments of the first      *)
(* call.  The solvers keep nothing between calls; what np.empty hands out  *)
(* is whatever the allocator holds at the time of the call.                *)
(***************************************************************************)
\* what the solver named in the call returns or raises
SolverResult(c, junk) ==
    IF c.solver = "euler_beam_modes"
    THEN euler_beam_modes_sel(c.n, c.bctype, c.npoints, c.params, junk)
    ELSE IF c.solver = "uniform_bar_modes"
    THEN uniform_bar_modes(c.n, c.bctype, c.npoints, c.params, c.keywords, junk)
    ELSE torsional_bar_modes(c.n, c.bctype, c.cstype, c.npoints, c.params, c.cspar, junk)

\* the same call once more, after any other use of the allocator
CallAgain ==
    /\ ms_out # None /\ ms_prev = None
    /\ \E junk \in Junks : ms_out' = Some(SolverResult(Val(ms_call), junk))
    /\ ms_prev' = ms_out
    /\ UNCHANGED <<ms_call, vibeVars, ixVars, frfVars, pfVars, heapVars>>

\* two identical calls of a mode solver
SpecRepeat == ModesInit /\ [][ModesNext \/ CallAgain]_vars

\* ---------------------------------------------------------------------------
\* The read operations of a VibeSystem between assignments.

\* the product of a rational row and an integer vector
RECURSIVE RowDot(_, _)
RowDot(row, x) ==
    IF row = <<>> THEN <<0, 1>>
    ELSE RatAdd(RatMul(row[1], <<x[1], 1>>), RowDot(Tail(row), Tail(x)))

\* force rows F[0] and initial conditions ic of the calls of time_response
ForceRows(d) == {Arr([j \in 1..d |-> 1])}
InitialConditions(d) == {None, Some(Arr([j \in 1..(2 * d) |-> j]))}

\* signal.lsim(system, F, t, ic) at the first sample: the state starts from ic
\* (zero without ic) and the output is C x0 + D u0 of the system passed in
lsim(system, F0, ic) ==
    LET x0 == IF ic = None THEN Arr([j \in 1..Len(system.A) |-> 0]) ELSE Val(ic)
    IN  [system |-> system,
         xout0 |-> Arr([j \in 1..Len(x0) |-> <<x0[j], 1>>]),
         yout0 |-> Arr([i \in 1..Len(system.C) |->
                      RatAdd(RowDot(system.C[i], x0), RowDot(system.D[i], F0))])]

\* time_response that keeps the simulated system in place of H
TimeResponse_store ==
    \E F0 \in ForceRows(n), ic \in InitialConditions(n) :
        /\ pf_call' = Some([fn |-> "time_response", F0 |-> F0, ic |-> ic])
        /\ pf_out' = Some(lsim(H, F0, ic))
        /\ H' = None
        /\ last' = "time_response"
        /\ UNCHANGED <<_M, _C, _K, n, evalues, evectors, wn, wd, lapack, fr, fr_prev,
                       ixVars, frfVars, modeVars, repeatVars, heapVars>>

\* VibeSystem.time_response: signal.lsim on the stored H
TimeResponse ==
    \E F0 \in ForceRows(n), ic \in InitialConditions(n) :
        /\ pf_call' = Some([fn |-> "time_response", F0 |-> F0, ic |-> ic])
        /\ pf_out' = Some(lsim(H, F0, ic))
        /\ last' = "time_response"
        /\ UNCHANGED <<_M, _C, _K, n, evalues, evectors, wn, wd, H, lapack, fr, fr_prev,
                       ixVars, frfVars, modeVars, repeatVars, heapVars>>

\* a constructed single-degree-of-freedom VibeSystem
ReadsInit == Init /\ n = 1

ReadsNext == SetM \/ SetC \/ SetK \/ FreqResponse \/ CallA \/ TimeResponse

\* a VibeSystem constructed, then assigned to and read in any order
SpecReads == ReadsInit /\ [][ReadsNext]_vars

(***************************************************************************)
(* Claims on the VibeSystem                                                *)
(***************************************************************************)
\* the object VibeSystem(M, C, K) builds: n = len(M), then _calc_system
Constructed(Mm, Cm, Km) == calc_system(Mm, Cm, Km, Len(Mm), lapack)

\* C1: after construction and after any assignments to M, C, K, the derived
\* quantities evalues, evectors, wn, wd and H equal those of a newly
\* constructed VibeSystem(M, C, K) for the current matrices.
Thm_C1 ==
    LET fresh == Constructed(_M, _C, _K)
    IN  /\ evalues = fresh.evalues
        /\ evectors = fresh.evectors
        /\ wn = fresh.wn
        /\ wd = fresh.wd
        /\ H = fresh.H

\* K has just been reassigned, to a matrix whose wn differs from the wn of
\* another stiffness matrix, and wn is already that of the new K
Wit_C1 ==
    /\ last = "K"
    /\ wn = Constructed(_M, _C, _K).wn
    /\ \E Kother \in DiagOver(n, KVals) : Constructed(_M, _C, Kother).wn # wn

ConjVector(v) == [r \in DOMAIN v |-> Conj(v[r])]

\* C2: after the eigen-sort, the eigenvalue at index i+n is the complex
\* conjugate of the eigenvalue at index i, for every i in 0..n-1, and the
\* eigenvector columns follow the same pairing.
Cex_C2 ==
    \A i \in 1..n :
        /\ evalues[i + n] = Conj(evalues[i])
        /\ evectors[i + n] = ConjVector(evectors[i])

\* the eigen-indices (0-based) holding the conjugates of the eigenpairs of S
ConjugatesOf(S) ==
    {p \in 0..(2 * n - 1) :
        \E q \in S : /\ evalues[p + 1] = Conj(evalues[q + 1])
                     /\ evectors[p + 1] = ConjVector(evectors[q + 1])}

\* C4: for a mode subset S passed as `modes`, the eigen-indices used in the
\* modal synthesis are exactly S together with the indices holding the
\* conjugates of the eigenvalues of S (stated for the calls that reach the
\* mode-subset branch, i.e. without an explicit grid, and synthesize).
Cex_C4 ==
    (fr.outcome = "ok" /\ fr.omega_arg = None /\ fr.modes_arg # None)
        => LET S == Range(Val(fr.modes_arg))
           IN  Range(fr.idx) = S \cup ConjugatesOf(S)

\* C5: `modes` is honoured independently of `omega`: with an explicit grid
\* and a (non-empty) mode list, the response is on the given grid and runs
\* over the same eigen-indices as the call with that mode list and no grid.
Cex_C5 ==
    (fr.outcome = "ok" /\ fr.omega_arg # None /\ fr.modes_arg # None
                      /\ Len(Val(fr.modes_arg)) > 0)
        => /\ fr.omega = fr.omega_arg
           /\ fr.idx = freq_response(None, fr.modes_arg).idx

\* C6: for a proper subset S of the modes and its complement S', the
\* eigen-index sets used by freq_response(modes=S) and freq_response(modes=S')
\* are disjoint and together cover all 2n eigen-indices.
Cex_C6 ==
    (/\ fr.outcome = "ok" /\ fr_prev.outcome = "ok"
     /\ fr.modes_arg # None /\ fr_prev.modes_arg # None
     /\ LET S == Range(Val(fr.modes_arg))
            T == Range(Val(fr_prev.modes_arg))
        IN  S # {} /\ T # {} /\ S \cap T = {} /\ S \cup T = 0..(n - 1))
        => /\ Range(fr.idx) \cap Range(fr_prev.idx) = {}
           /\ Range(fr.idx) \cup Range(fr_prev.idx) = 0..(2 * n - 1)

(***************************************************************************)
(* Claims on _index                                                        *)
(***************************************************************************)
IsPermutation(idx, N) == Len(idx) = N /\ Range(idx) = 0..(N - 1)

FrfDone == frf_pc = "done" /\ frf_args # None /\ frf_out # None

\* the call is over and ran to the return statement after the loop
FrfCompleted == FrfDone /\ Val(frf_out).kind = "return" /\ "plotted" \in DOMAIN Val(frf_out)

\* a location is off the beam
OffBeam(args) ==
    \/ args.xin < 0 \/ args.xout < 0
    \/ args.xin > args.beamparams[5] \/ args.xout > args.beamparams[5]

\* the angular frequency of mode k of the beam of the call, from the mode solver
OmegaOfMode(args, k) == euler_beam_modes(k, args.bctype, args.beamparams).omega_n[k]

\* C7: in every completed call of euler_beam_frf that accumulated a mode, the
\* accumulated modes are the modes 1..m in order, the natural frequency of the
\* last one is at least 1.3 * 2 pi fmax and the natural frequency of the one
\* before it, if any, is below that bound.
Thm_C7 ==
    (FrfCompleted /\ Len(frf_a) >= 1) =>
        LET args == Val(frf_args)
            m == Len(frf_a)
        IN  /\ \A k \in 1..m : frf_a[k].mode = k /\ frf_a[k].wn = OmegaOfMode(args, k)
            /\ OmegaOfMode(args, m) >= LoopBound(args.fmax)
            /\ m >= 2 => OmegaOfMode(args, m - 1) < LoopBound(args.fmax)

\* a completed call whose loop went past its second mode
Wit_C7 ==
    /\ FrfCompleted
    /\ Len(frf_a) >= 3
    /\ Val(frf_args).fmax > 0
    /\ OmegaOfMode(Val(frf_args), Len(frf_a) - 1) > 0

\* C8: a call of euler_beam_frf, direct or through ebf / ebf1, with a location
\* below 0 or above L ends in an OutOfDomain error raised to the caller, and
\* a call with both locations in [0, L] does not end that way.
Cex_C8 ==
    FrfDone =>
        /\ OffBeam(Val(frf_args)) =>
                /\ frf_i = 0
                /\ Val(frf_out) = Raised("OutOfDomain")
        /\ ~OffBeam(Val(frf_args)) => Val(frf_out) # Raised("OutOfDomain")

\* C9: the value a completed call of euler_beam_frf returns holds the total
\* curve, the sum of the per-mode contributions, next to the contributions.
Cex_C9 ==
    (FrfCompleted /\ Val(frf_args).via = "euler_beam_frf" /\ Len(frf_a) >= 1) =>
        LET value == Val(Val(frf_out).value)
        IN  \E part \in DOMAIN value : value[part] = sp_sum(frf_a)

\* C10: a call of euler_beam_frf with a boundary condition 1..6 and both
\* locations on the beam does not fail, however many modes the loop needs.
Cex_C10 ==
    (FrfDone /\ ~OffBeam(Val(frf_args))) => Val(frf_out).kind = "return"

(***************************************************************************)
(* Claims on the mode solvers                                              *)
(***************************************************************************)
\* the call of the mode solver is over
ModesDone == ms_call # None /\ ms_out # None

\* the call of the mode solver returned (omega_n, x, U)
ModesReturned == ModesDone /\ Val(ms_out).kind = "return"

\* the boundary-condition tags the docstring of the solver enumerates
BctypesOf(solver) == IF solver = "euler_beam_modes" THEN 1..6 ELSE 1..3

\* the length L among the parameters of the call
LengthOf(c) ==
    CASE c.solver = "euler_beam_modes" -> c.params[5]
      [] c.solver = "uniform_bar_modes" -> c.params[3]
      [] c.solver = "torsional_bar_modes" -> c.params[4]

\* C11: a call of a mode solver with a boundary-condition tag outside the
\* enumerated set of the solver ends in a Configuration error, and no call
\* returns arrays with entries that no branch computed.
Cex_C11 ==
    ModesDone =>
        /\ Val(ms_call).bctype \notin BctypesOf(Val(ms_call).solver)
                => Val(ms_out) = [kind |-> "raise", value |-> Some("ConfigurationError")]
        /\ Val(ms_out).kind = "return"
                => Val(ms_out).assigned = 0..(Len(Val(Val(ms_out).value).omega_n) - 1)

\* C12: a call of torsional_bar_modes (boundary condition 1..3) with cstype 4
\* and a cspar of a length other than 4, or with a torsional constant g <= 0,
\* ends in an error and returns no result.
Cex_C12 ==
    (ModesDone /\ Val(ms_call).solver = "torsional_bar_modes"
               /\ Val(ms_call).bctype \in 1..3) =>
        LET c == Val(ms_call)
            out == Val(ms_out)
        IN  (\/ c.cstype = 4 /\ Len(c.cspar) # 4
             \/ out.g # None /\ Val(out.g) <= 0)
                => out.kind = "raise"

\* C13: in every result of euler_beam_modes for the free-free beam, a
\* position holding mode number 1 has frequency 0 and a constant shape, a
\* position holding mode number 2 has frequency 0 and a shape linear in x
\* with zero mean, both after the normalization pass.
Thm_C13 ==
    (ModesReturned /\ Val(ms_call).solver = "euler_beam_modes" /\ Val(ms_call).bctype = 1) =>
        LET c == Val(ms_call)
            res == Val(Val(ms_out).value)
            nsel == ModeNumbers(c.n)
        IN  \A j \in 1..Len(nsel) :
              /\ nsel[j] = 1 =>
                    /\ res.omega_n[j] = 0
                    /\ res.U[j].shape.formula = "constant"
                    /\ res.U[j].shape.normalized
                    /\ res.U[j].values # None
                    /\ LET v == Val(res.U[j].values)
                       IN  /\ Len(v) = c.npoints
                           /\ v[1] > 0
                           /\ \A p \in 1..Len(v) : v[p] = v[1]
              /\ nsel[j] = 2 =>
                    /\ res.omega_n[j] = 0
                    /\ res.U[j].shape.formula = "linear"
                    /\ res.U[j].shape.normalized
                    /\ res.U[j].values # None
                    /\ LET v == Val(res.U[j].values)
                       IN  /\ Len(v) = c.npoints
                           /\ v[2] > v[1]
                           /\ \A p \in 1..(Len(v) - 1) : v[p + 1] - v[p] = v[2] - v[1]
                           /\ \A p \in 1..Len(v) : v[p] = -v[Len(v) + 1 - p]

\* a free-free result with mode 2 requested at the second position
Wit_C13 ==
    /\ ModesReturned
    /\ Val(ms_call).solver = "euler_beam_modes"
    /\ Val(ms_call).bctype = 1
    /\ Val(ms_call).n = ArraySel(<<5, 2>>)
    /\ Val(Val(ms_out).value).omega_n[2] = 0

\* C14: for every boundary condition 1..6 and every mode number k, the result
\* of euler_beam_modes for the selector [k] is the k-th frequency and shape
\* of the result for the count selector k.
Cex_C14 ==
    (/\ ModesReturned
     /\ Val(ms_call).solver = "euler_beam_modes"
     /\ Val(ms_call).bctype \in 1..6
     /\ Val(ms_call).n.kind = "array"
     /\ Len(Val(ms_call).n.value) = 1) =>
        LET c == Val(ms_call)
            k == c.n.value[1]
            res == Val(Val(ms_out).value)
            ref == euler_beam_modes(k, c.bctype, c.params)
        IN  /\ res.omega_n[1] = ref.omega_n[k]
            /\ res.U[1].shape = ref.U[k]

\* C15: every column of U that a mode solver returns for a boundary condition
\* of its enumerated set went through the
\* normalization pass; where the samples are known, the sum of their squares
\* times the mass is 1 (10^6 in units of 0.001^2, to one percent).
Cex_C15 ==
    (ModesReturned /\ Val(ms_call).bctype \in BctypesOf(Val(ms_call).solver)) =>
        LET c == Val(ms_call)
            res == Val(Val(ms_out).value)
        IN  \A j \in 1..Len(res.U) :
              /\ res.U[j].shape.normalized
              /\ res.U[j].values # None =>
                    AbsInt(SumSq(Val(res.U[j].values))
                           * c.params[3] * c.params[4] * c.params[5] - 1000000) <= 10000

\* C16: for the fixed-fixed bar requested with the count selector N the k-th
\* returned frequency is k pi sqrt(E / rho) / L, for every k in 1..N.
Cex_C16 ==
    (/\ ModesReturned
     /\ Val(ms_call).solver = "uniform_bar_modes"
     /\ Val(ms_call).bctype = 3
     /\ Val(ms_call).n.kind = "int") =>
        LET c == Val(ms_call)
            res == Val(Val(ms_out).value)
        IN  /\ Len(res.omega_n) = c.n.value[1]
            /\ \A k \in 1..Len(res.omega_n) :
                  res.omega_n[k] = (k * PiE4 * BarSpeed(c.params)) \div (10000 * c.params[3])

\* C17: a call of uniform_bar_modes with bctype 4 or 5 returns, every
\* position of its frequency array was computed, and the frequencies are
\* strictly increasing.
Cex_C17 ==
    (ModesDone /\ Val(ms_call).solver = "uniform_bar_modes"
               /\ Val(ms_call).bctype \in {4, 5}) =>
        /\ Val(ms_out).kind = "return"
        /\ LET w == Val(Val(ms_out).value).omega_n
           IN  /\ Val(ms_out).assigned = 0..(Len(w) - 1)
               /\ \A k \in 1..(Len(w) - 1) : w[k] < w[k + 1]

\* C18: the grid x a mode solver returns for a boundary condition of its
\* enumerated set has npoints samples from 0 to L, and every mode shape was
\* evaluated on it.
Cex_C18 ==
    (ModesReturned /\ Val(ms_call).bctype \in BctypesOf(Val(ms_call).solver)) =>
        LET c == Val(ms_call)
            res == Val(Val(ms_out).value)
        IN  /\ res.x = linspace(0, LengthOf(c), c.npoints)
            /\ \A j \in 1..Len(res.U) :
                  res.U[j].on # None => res.U[j].on = Some(res.x)

(***************************************************************************)
(* Claims on VibeSystem.A and on the all-modes synthesis of freq_response  *)
(***************************************************************************)
\* the call of A() is over
ADone == pf_call # None /\ pf_out # None /\ Val(pf_call).fn = "A"

RECURSIVE RatSum(_)
RatSum(xs) == IF xs = <<>> THEN <<0, 1>> ELSE RatAdd(xs[1], RatSum(Tail(xs)))

\* the entry (i, j) of X @ Y for an integer matrix X and a rational matrix Y
TimesEntry(X, Y, i, j) ==
    RatSum(Arr([k \in 1..Len(Y) |-> RatMul(<<X[i][k], 1>>, Y[k][j])]))

\* C19: A() returns the 2n x 2n matrix with a zero top-left block, the
\* identity as top-right block, -M^-1 K as bottom-left block and -M^-1 C as
\* bottom-right block: the lower blocks X, Y are the solutions of
\* M X = -K and M Y = -C.
Thm_C19 ==
    ADone =>
        LET Am == Val(pf_out).A
            BL == Arr([i \in 1..n |-> Arr([j \in 1..n |-> Am[n + i][j]])])
            BR == Arr([i \in 1..n |-> Arr([j \in 1..n |-> Am[n + i][n + j]])])
        IN  /\ Len(Am) = 2 * n
            /\ \A i \in 1..(2 * n) : Len(Am[i]) = 2 * n
            /\ \A i \in 1..n, j \in 1..n :
                   /\ Am[i][j] = <<0, 1>>
                   /\ Am[i][n + j] = (IF i = j THEN <<1, 1>> ELSE <<0, 1>>)
                   /\ TimesEntry(_M, BL, i, j) = <<-_K[i][j], 1>>
                   /\ TimesEntry(_M, BR, i, j) = <<-_C[i][j], 1>>

\* C19 witness: A() of the doctest system has the lower rows
\* [-2000, 1000, -2, 1] and [1000, -2000, 1, -2]
Wit_C19 ==
    /\ ADone
    /\ _M = Sym2(1, 0) /\ _C = Sym2(2, -1) /\ _K = Sym2(2000, -1000)
    /\ Val(pf_out).A[3] = << <<-2000, 1>>, <<1000, 1>>, <<-2, 1>>, <<1, 1>> >>
    /\ Val(pf_out).A[4] = << <<1000, 1>>, <<-2000, 1>>, <<1, 1>>, <<-2, 1>> >>

\* the call of freq_response went through the all-modes synthesis: omega was
\* given, or neither omega nor modes
AllModesDone ==
    /\ pf_call # None /\ pf_out # None /\ Val(pf_call).fn = "freq_response"
    /\ fr.outcome = "ok"
    /\ (fr.omega_arg # None \/ fr.modes_arg = None)

\* every stored eigenpair satisfies A v = lam v exactly
ExactEigen ==
    \A p \in 1..Len(evalues) :
        CMatMul(CMat(H.A), Arr([r \in 1..(2 * n) |-> <<FromComplex(evectors[p][r])>>]))
          = Arr([r \in 1..(2 * n) |->
                  <<CMul(FromComplex(evalues[p]), FromComplex(evectors[p][r]))>>])

Undamped == \A i \in 1..n, j \in 1..n : _C[i][j] = 0

\* the static compliance matrix K^-1
Compliance == la_solve(_K, Eye(n))

\* C20: for an undamped system the magnitude the all-modes synthesis returns
\* at frequency 0 is, for every output/input pair, 20 log10 of the static
\* compliance of the pair.
Thm_C20 ==
    (AllModesDone /\ Undamped /\ ExactEigen /\ Val(pf_out).omega.start = 0) =>
        Val(pf_out).magdb = magh(CMat(Compliance))

\* C20 witness: the chain M = I, K = [[650, -250], [-250, 650]] answers
\* 20 log10(1/1440) for output 0 and input 1 at frequency 0
Wit_C20 ==
    /\ AllModesDone /\ Undamped /\ ExactEigen /\ Val(pf_out).omega.start = 0
    /\ _M = Sym2(1, 0) /\ _K = Sym2(650, -250)
    /\ Val(pf_out).magdb[1][2] = [ten_log10_of |-> <<1, 1440 * 1440>>]

(***************************************************************************)
(* Claims on construction and assignment with any matrices                 *)
(***************************************************************************)
\* the last call, of the given kind, is over
AssignDone(fns) == pf_call # None /\ pf_out # None /\ Val(pf_call).fn \in fns

\* the last call raised
AssignRaised == pf_out # None /\ Val(pf_out).kind = "raise"

\* C21: a singular mass matrix raises at once: VibeSystem(M, C, K) with a
\* singular M raises and leaves no object, sys.M = singular raises during the
\* assignment, and no observable VibeSystem has a derived quantity None.
Thm_C21 ==
    /\ Observable =>
          (evalues # None /\ evectors # None /\ wn # None /\ wd # None /\ H # None)
    /\ (AssignDone({"__init__"}) /\ Det(Val(Val(pf_call).M)) = 0) =>
          (AssignRaised /\ ~Observable)
    /\ (AssignDone({"M"}) /\ Det(Val(Val(pf_call).M)) = 0) => AssignRaised

\* C21 witness: a constructed system whose assignment sys.M = [[1, 0], [0, 0]]
\* raised LinAlgError
Wit_C21 ==
    /\ Observable /\ AssignDone({"M"})
    /\ Val(Val(pf_call).M) = Diag(<<1, 0>>)
    /\ Val(pf_out) = Outcome("LinAlgError")
    /\ evalues # None /\ H # None

\* the derived quantities are those of the stored matrices
Agrees ==
    /\ CalcRaises(_M, _C, _K, n) = "none"
    /\ LET d == calc_system(_M, _C, _K, n, lapack)
       IN  /\ evalues = d.evalues /\ evectors = d.evectors
           /\ wn = d.wn /\ wd = d.wd /\ H = d.H

\* C28: after the setters were given M, C, K of another dimension than at
\* construction, n is the dimension of the current M and wn, wd have that
\* many entries.
Cex_C28 ==
    (Observable /\ Len(_M) = Len(_C) /\ Len(_C) = Len(_K)) =>
        (n = Len(_M) /\ Len(wn) = Len(_M) /\ Len(wd) = Len(_M))

\* C29: an assignment to M, C or K that raises leaves the VibeSystem as it
\* was: the derived quantities still agree with the stored M, C, K.
Cex_C29 ==
    (Observable /\ AssignDone({"M", "C", "K"}) /\ AssignRaised) => Agrees

(***************************************************************************)
(* Claims on the arrays a VibeSystem shares with its caller                *)
(***************************************************************************)
\* C23: whatever the caller does with the array objects it passed as M, C
\* or K (writing into them, building a second VibeSystem from them and
\* assigning to it), the derived quantities of the first instance are those
\* of the M, C, K read from it.
Cex_C23 ==
    held # None =>
        LET fresh == Constructed(_M, _C, _K)
        IN  /\ evalues = fresh.evalues /\ evectors = fresh.evectors
            /\ wn = fresh.wn /\ wd = fresh.wd
            /\ H = fresh.H

(***************************************************************************)
(* Claims on repeated calls of the mode solvers                            *)
(***************************************************************************)
\* C22: two calls of a mode solver with identical arguments return
\* identical frequencies, grids and mode shapes.
Cex_C22 ==
    (ms_prev # None /\ ms_out # None) => ms_out = ms_prev

(***************************************************************************)
(* Claims on the loop of euler_beam_frf                                    *)
(***************************************************************************)
\* the call is inside the while loop and has made at least one iteration
FrfLooping == frf_pc = "loop" /\ frf_args # None /\ frf_i >= 1

\* C26: after iteration i of the loop the solver has been asked for the modes
\* 1..i and the column written last holds the frequency and the shape of
\* mode i alone; the array a completed call plots and returns has exactly i
\* columns, column k - 1 holding the contribution of mode k.
Thm_C26 ==
    /\ FrfLooping =>
          LET args == Val(frf_args)
              modes == euler_beam_modes(frf_i, args.bctype, args.beamparams)
          IN  /\ frf_wn = modes.omega_n
              /\ Len(frf_wn) = frf_i
              /\ Len(frf_a) = frf_i
              /\ frf_a[frf_i] = Contribution(args, frf_i, modes)
              /\ frf_a[frf_i].wn = modes.omega_n[frf_i]
              /\ frf_a[frf_i].Uin.shape = modes.U[frf_i]
    /\ FrfCompleted =>
          LET args == Val(frf_args)
              a == Val(frf_out).plotted[2]
          IN  /\ Len(a) = frf_i
              /\ \A k \in 1..frf_i :
                    a[k] = Contribution(args, k,
                               euler_beam_modes(k, args.bctype, args.beamparams))
              /\ args.via = "euler_beam_frf" => Val(Val(frf_out).value).H = a

\* C26 witness: a direct call that returned after four or more iterations,
\* its array holding as many columns as iterations
Wit_C26 ==
    /\ FrfCompleted
    /\ Val(frf_args).via = "euler_beam_frf"
    /\ frf_i >= 4
    /\ Len(Val(Val(frf_out).value).H) = frf_i
    /\ Val(Val(frf_out).value).H[frf_i].mode = frf_i


\* C24: for the free-free beam and every mode selector, a position of the
\* returned arrays whose eigenvalue parameter Bnl is 0 never carries the general
\* hyperbolic-trigonometric mode shape: it takes a rigid-body branch.
Cex_C24 ==
    (ModesReturned /\ Val(ms_call).solver = "euler_beam_modes"
                   /\ Val(ms_call).bctype = 1) =>
        LET U == Val(Val(ms_out).value).U
        IN  \A k \in 1..Len(U) :
               U[k].shape.Bnl = 0 => U[k].shape.formula \in {"constant", "linear"}


\* a returned call of euler_beam_modes with a count selector and a boundary
\* condition that has a table
CountBeamReturned ==
    /\ ModesReturned
    /\ Val(ms_call).solver = "euler_beam_modes"
    /\ Val(ms_call).n.kind = "int"
    /\ Val(ms_call).bctype \in 1..5

\* C25: for the count selector N and the boundary conditions 1..5, the
\* eigenvalue parameter of mode k is the k-th table entry when k is at most the
\* threshold (7 for free-free, 4 for the clamped families) and the asymptotic
\* formula otherwise; parameters and natural frequencies are non-decreasing in k.
Thm_C25 ==
    CountBeamReturned =>
        LET bctype == Val(ms_call).bctype
            out == Val(Val(ms_out).value)
            N == Len(out.U)
            threshold == IF bctype = 1 THEN 7 ELSE 4
        IN  /\ N = Val(ms_call).n.value[1]
            /\ \A k \in 1..N :
                  /\ out.U[k].shape.mode = k
                  /\ out.U[k].shape.Bnl = IF k <= threshold
                                          THEN Bnllow(bctype)[k]
                                          ELSE BnlFormula(bctype, k)
            /\ (bctype = 2 /\ N >= 5) => out.U[5].shape.Bnl = (9 * PiE4) \div 200
            /\ \A k \in 1..(N - 1) :
                  /\ out.U[k].shape.Bnl <= out.U[k + 1].shape.Bnl
                  /\ out.omega_n[k] <= out.omega_n[k + 1]

\* a free-free call whose modes cross from the table (mode 7) to the formula
\* (mode 8) with strictly growing parameter and frequency
Wit_C25 ==
    /\ CountBeamReturned
    /\ Val(ms_call).bctype = 1
    /\ Val(ms_call).n.value = <<8>>
    /\ LET out == Val(Val(ms_out).value)
       IN  /\ out.U[7].shape.Bnl = Bnllow(1)[7]
           /\ out.U[8].shape.Bnl = BnlFormula(1, 8)
           /\ out.U[7].shape.Bnl < out.U[8].shape.Bnl
           /\ out.omega_n[7] < out.omega_n[8]


\* C27: the realization stored in H has B = [0; M^-1] (the lower block X
\* solves M X = I), C = [I 0], D = 0, and its state matrix is the matrix that
\* A() returns for the current M, C, K.
Thm_C27 ==
    last # "none" =>
        LET Blow == Arr([i \in 1..n |-> Arr([j \in 1..n |-> H.B[n + i][j]])])
        IN  /\ Len(H.B) = 2 * n /\ Len(H.C) = n /\ Len(H.D) = n
            /\ \A i \in 1..n, j \in 1..n :
                   /\ H.B[i][j] = <<0, 1>>
                   /\ TimesEntry(_M, Blow, i, j) = (IF i = j THEN <<1, 1>> ELSE <<0, 1>>)
                   /\ H.C[i][j] = (IF i = j THEN <<1, 1>> ELSE <<0, 1>>)
                   /\ H.C[i][n + j] = <<0, 1>>
                   /\ H.D[i][j] = <<0, 1>>
            /\ \A i \in 1..n : Len(H.C[i]) = 2 * n /\ Len(H.D[i]) = n
            /\ \A i \in 1..(2 * n) : Len(H.B[i]) = n
            /\ H.A = A(_M, _C, _K, n)
            /\ ADone => H.A = Val(pf_out).A

\* C27 witness: a system with the coupled mass matrix [[2, 1], [1, 2]], whose
\* inverse is [[2/3, -1/3], [-1/3, 2/3]], after a call of A()
Wit_C27 ==
    /\ ADone
    /\ _M = Sym2(2, 1)
    /\ H.B[3] = << <<2, 3>>, <<-1, 3>> >>
    /\ H.B[4] = << <<-1, 3>>, <<2, 3>> >>
    /\ H.C[1] = << <<1, 1>>, <<0, 1>>, <<0, 1>>, <<0, 1>> >>
    /\ H.A = Val(pf_out).A


\* the fields of the object
Fields == <<_M, _C, _K, n, evalues, evectors, wn, wd, H>>

\* C30: A, time_response and freq_response leave M, C, K, n, evalues,
\* evectors, wn, wd and H unchanged, and what they return is computed from the
\* matrices and derived quantities in place since the last assignment.
Thm_C30 ==
    [][last' \in {"A", "time_response", "freq_response"} =>
          /\ Fields' = Fields
          /\ last' = "A" => Val(pf_out').A = A(_M, _C, _K, n)
          /\ last' = "time_response" => Val(pf_out').system = H
          /\ last' = "freq_response" => fr' = freq_response(fr'.omega_arg, fr'.modes_arg)]_vars

\* C30 witness: after an assignment to K, a freq_response and then a
\* time_response were served from the same object
Wit_C30 ==
    /\ last = "time_response"
    /\ fr.outcome = "ok"
    /\ Val(pf_call).fn = "time_response"
    /\ Val(pf_out).system = H
    /\ H = _H(_M, _C, _K, n)
    /\ _K # <<<<400>>>>

====
